---- MODULE Spec2Model ----
(***************************************************************************)
(* The points and ranking engine of the tippspiel application              *)
(* (tipping/views.py, tipping/models.py).                                  *)
(*                                                                         *)
(* The database tables are the state: the tournament row, the matches,     *)
(* the predictions and the bonus predictions of one group, plus the clock  *)
(* (timezone.now()), the request being served and the value the last       *)
(* call or view produced.  Text is a sequence of one-character strings, so *)
(* that strip(), lower() and split(",") are computed, not assumed.         *)
(***************************************************************************)
EXTENDS Integers, Sequences, FiniteSets, TLC

VARIABLES
    now,                \* timezone.now()
    tournament,         \* the Tournament row (the groups share one tournament)
    matches,            \* Match rows of the tournament: id -> row
    predictions,        \* Prediction rows: <<user id, group id, match id>> -> row
    bonus_predictions,  \* BonusPrediction rows, in table order
    memberships,        \* GroupMembership rows
    groups,             \* Group rows: the ids of the groups
    session,            \* request.session["active_group_id"] by user
    request,            \* the request (or call) being served
    response            \* what the last call returned / the last view rendered

vars ==
    <<now, tournament, matches, predictions, bonus_predictions, memberships, groups,
      session, request, response>>

\* Python's None, and the optional values None | n written None | Some(n)
None == << >>

Some(n) == << n >>

Get(o) == o[1]

\* how a call ends: it returns a value or raises an exception
Return(v) == [ret |-> v]

Raise(e) == [raised |-> e]

-----------------------------------------------------------------------------
(* Bounds of the model                                                     *)

\* goals per side range over 0..MaxGoals
MaxGoals == 3

\* the clock and every timestamp range over 0..MaxTime
MaxTime == 2

-----------------------------------------------------------------------------
(* Text                                                                    *)

\* the empty str
Empty == << >>

IsSpace(c) == c = " "

\* str.lower() on one character
LowerChar(c) ==
    CASE c = "A" -> "a"
      [] c = "B" -> "b"
      [] c = "C" -> "c"
      [] OTHER -> c

\* str.lower()
Lower(s) == [i \in 1..Len(s) |-> LowerChar(s[i])]

RECURSIVE LStrip(_)
LStrip(s) == IF s # Empty /\ IsSpace(Head(s)) THEN LStrip(Tail(s)) ELSE s

RECURSIVE RStrip(_)
RStrip(s) ==
    IF s # Empty /\ IsSpace(s[Len(s)]) THEN RStrip(SubSeq(s, 1, Len(s) - 1)) ELSE s

\* str.strip()
Strip(s) == RStrip(LStrip(s))

\* s.split(sep): the pieces of s between the separators, empty pieces kept
RECURSIVE SplitFrom(_, _, _)
SplitFrom(s, sep, piece) ==
    IF s = Empty THEN << piece >>
    ELSE IF Head(s) = sep THEN << piece >> \o SplitFrom(Tail(s), sep, Empty)
    ELSE SplitFrom(Tail(s), sep, Append(piece, Head(s)))

Split(s, sep) == SplitFrom(s, sep, Empty)

\* the elements of a sequence
Range(s) == {s[i] : i \in 1..Len(s)}

-----------------------------------------------------------------------------
(* Rows                                                                    *)

\* Tournament row
TournamentRow(start, herbst, meister, trainer, scorer, relegated) ==
    [season_start |-> start, autumn_champion |-> herbst, champion |-> meister,
     first_coach_sacked |-> trainer, top_scorer |-> scorer, relegated_teams |-> relegated]

\* Match row
MatchRow(home, kickoff, matchday, hs, as) ==
    [home_team |-> home, kickoff |-> kickoff, matchday |-> matchday,
     home_score |-> hs, away_score |-> as]

\* Prediction row
PredictionRow(ph, pa) == [pred_home |-> ph, pred_away |-> pa]

\* BonusPrediction row
BonusRow(u, g, t, v) == [user |-> u, group |-> g, bonus_type |-> t, value |-> v]

\* a table without rows
NoRows == [k \in {} |-> None]

\* dict.get(key): the row, or None
RowOrNone(table, key) == IF key \in DOMAIN table THEN table[key] ELSE None

\* nothing asked, nothing answered
Idle == [op |-> "idle"]

-----------------------------------------------------------------------------
(* Scoring                                                                 *)

\* int - int; None as an operand raises TypeError
Minus(x, y) ==
    IF x = None \/ y = None THEN Raise("TypeError") ELSE Return(Get(x) - Get(y))

\* 1 = home win, 0 = draw, -1 = away win
_outcome_forgets_away_win(h, a) ==
    IF h = None \/ a = None THEN Raise("TypeError")
    ELSE Return(IF Get(h) > Get(a) THEN 1 ELSE 0)

_outcome(h, a) ==
    IF h = None \/ a = None THEN Raise("TypeError")
    ELSE Return((IF Get(h) > Get(a) THEN 1 ELSE 0) - (IF Get(h) < Get(a) THEN 1 ELSE 0))

\* the comparisons of points_for_prediction, after its three guards
points_tendency_before_difference(match, pred) ==
    IF pred.pred_home = match.home_score /\ pred.pred_away = match.away_score
    THEN Return(4)
    ELSE LET op == _outcome(pred.pred_home, pred.pred_away)
             om == _outcome(match.home_score, match.away_score)
             dp == Minus(pred.pred_home, pred.pred_away)
             dm == Minus(match.home_score, match.away_score)
         IN  IF op = Raise("TypeError") \/ om = Raise("TypeError") THEN Raise("TypeError")
             ELSE IF op = om THEN Return(2)
             ELSE IF dp = dm THEN Return(3)
             ELSE Return(0)

points_compare(match, pred) ==
    IF pred.pred_home = match.home_score /\ pred.pred_away = match.away_score
    THEN Return(4)
    ELSE LET dp == Minus(pred.pred_home, pred.pred_away)
             dm == Minus(match.home_score, match.away_score)
             op == _outcome(pred.pred_home, pred.pred_away)
             om == _outcome(match.home_score, match.away_score)
         IN  IF dp = Raise("TypeError") \/ dm = Raise("TypeError") THEN Raise("TypeError")
             ELSE IF dp = dm THEN Return(3)
             ELSE IF op = om THEN Return(2)
             ELSE Return(0)

points_without_partial_guard(match, pred) ==
    IF pred = None THEN Return(0)
    ELSE IF match.home_score = None \/ match.away_score = None THEN Return(0)
    ELSE points_compare(match, pred)

\* the call points_for_prediction(match, pred); pred is a Prediction row or None
points_for_prediction_call(match, pred) ==
    IF pred = None THEN Return(0)
    ELSE IF match.home_score = None \/ match.away_score = None THEN Return(0)
    ELSE IF pred.pred_home = None \/ pred.pred_away = None THEN Return(0)
    ELSE points_compare(match, pred)

\* the value the views use
points_for_prediction(match, pred) == points_for_prediction_call(match, pred).ret

-----------------------------------------------------------------------------
(* Bonus scoring                                                           *)

\* BonusPrediction.BONUS_TYPES
BONUS_TYPES ==
    <<"herbstmeister", "meister", "trainer_first", "topscorer", "relegation1", "relegation2">>

_norm_without_lower(s) == Strip(IF s = None THEN Empty ELSE s)

\* (s or "").strip().lower()
_norm(s) == Lower(Strip(IF s = None THEN Empty ELSE s))

\* {_norm(x) for x in relegated_raw.split(",") if _norm(x)}
relegated_set(t) ==
    {_norm(x) : x \in Range(Split(t.relegated_teams, ","))} \ {Empty}

single_hit_or_undecided(real, val) == real = Empty \/ val = real

\* real_x and val == real_x
single_hit(real, val) == real # Empty /\ val = real

\* relegated_set and val in relegated_set
relegation_hit(relegated, val) == relegated # {} /\ val \in relegated

award_as_exact_tip(pts) == pts + 4

\* pts += 5
award(pts) == pts + 5

counted_after_every_slot(counted, val) == {}

\* counted_relegations.add(val)
counted_after(counted, val) == counted \cup {val}

\* the loop over preds, from the pick at the head of preds on
RECURSIVE bonus_loop(_, _, _, _)
bonus_loop(t, preds, pts, counted_relegations) ==
    IF preds = << >> THEN pts
    ELSE LET bp    == Head(preds)
             btype == bp.bonus_type
             val   == _norm(bp.value)
             rest  == Tail(preds)
         IN  IF val = Empty
             THEN bonus_loop(t, rest, pts, counted_relegations)
             ELSE IF btype = "herbstmeister" /\ single_hit(_norm(t.autumn_champion), val)
             THEN bonus_loop(t, rest, award(pts), counted_relegations)
             ELSE IF btype = "meister" /\ single_hit(_norm(t.champion), val)
             THEN bonus_loop(t, rest, award(pts), counted_relegations)
             ELSE IF btype = "trainer_first" /\ single_hit(_norm(t.first_coach_sacked), val)
             THEN bonus_loop(t, rest, award(pts), counted_relegations)
             ELSE IF btype = "topscorer" /\ single_hit(_norm(t.top_scorer), val)
             THEN bonus_loop(t, rest, award(pts), counted_relegations)
             ELSE IF btype \in {"relegation1", "relegation2"}
                     /\ relegation_hit(relegated_set(t), val)
             THEN IF val \notin counted_relegations
                  THEN bonus_loop(t, rest, award(pts), counted_after(counted_relegations, val))
                  ELSE bonus_loop(t, rest, pts, counted_relegations)
             ELSE bonus_loop(t, rest, pts, counted_relegations)

bonus_points_for_user(t, preds) == bonus_loop(t, preds, 0, {})

\* bonus_by_user.get(u.id, [])
bonus_by_user(rows, u) == SelectSeq(rows, LAMBDA bp : bp.user = u)

-----------------------------------------------------------------------------
(* Ordering                                                                *)

\* code points of the characters of the model's texts
Code ==
    (" " :> 32) @@ ("," :> 44) @@ ("A" :> 65) @@ ("B" :> 66) @@ ("C" :> 67)
        @@ ("a" :> 97) @@ ("b" :> 98) @@ ("c" :> 99)

\* a < b for two str (the order of ORDER BY on a text column and of Python's <)
StrLess(a, b) ==
    \E k \in 1..Len(b) :
        /\ k - 1 <= Len(a)
        /\ \A i \in 1..(k - 1) : a[i] = b[i]
        /\ \/ k = Len(a) + 1
           \/ k <= Len(a) /\ Code[a[k]] < Code[b[k]]

\* a list comprehension, built once: the same sequence, with its elements computed
List(seq) == seq \o << >>

\* a stable sort (list.sort, sorted, ORDER BY with ties left in the order given):
\* element i goes behind the elements that are Less, and behind the equal ones before it
SortKey(num, text) == [num |-> num, text |-> text]

\* tuple comparison of two sort keys
KeyLess(a, b) == a.num < b.num \/ (a.num = b.num /\ StrLess(a.text, b.text))

\* seq ordered by keys, keys[i] being the key of seq[i]; equal keys keep their order
SortedBy(seq, keys) ==
    LET n     == Len(seq)
        items == List(seq)
        ks    == List(keys)
        place == List([i \in 1..n |->
                    1 + Cardinality({j \in 1..n :
                            \/ KeyLess(ks[j], ks[i])
                            \/ ~KeyLess(ks[i], ks[j]) /\ j < i})])
    IN  List([k \in 1..n |-> items[CHOOSE i \in 1..n : place[i] = k]])

\* the elements of a set of integers (row ids) in ascending order
RECURSIVE Ascending(_)
Ascending(ids) ==
    IF ids = {} THEN << >>
    ELSE LET least == CHOOSE x \in ids : \A y \in ids : x <= y
         IN  << least >> \o Ascending(ids \ {least})

RECURSIVE Sum(_)
Sum(seq) == IF seq = << >> THEN 0 ELSE Head(seq) + Sum(Tail(seq))

-----------------------------------------------------------------------------
(* Users, memberships and the session                                      *)

\* the users of the group range over 1..MaxUsers
MaxUsers == 2

\* auth_user.username by user id
Usernames == << <<"B">>, <<"a">>, <<"A", "b">>, <<"b">>, <<"c">>, <<"C", "a">> >>

username(u) == Usernames[u]

Users == 1..MaxUsers

\* GroupMembership row
MembershipRow(id, u, g) == [id |-> id, user |-> u, group |-> g]

\* the database the views read
Database(t, ms, ps, bs, mships) ==
    [tournament |-> t, matches |-> ms, predictions |-> ps, bonus_predictions |-> bs,
     memberships |-> mships]

\* GroupMembership.objects.filter(user=..., group_id=...).first(), by id
first_membership(rows) ==
    IF rows = {} THEN None
    ELSE CHOOSE r \in rows : \A q \in rows : r.id <= q.id

_require_active_membership_takes_last(mships, sess, user) ==
    LET active_group_id == sess[user]
        of_active ==
            IF active_group_id = None THEN None
            ELSE first_membership({r \in mships :
                    r.user = user /\ r.group = Get(active_group_id)})
        rows == {r \in mships : r.user = user}
        fallback == IF rows = {} THEN None
                    ELSE CHOOSE r \in rows : \A q \in rows : q.id <= r.id
    IN  IF of_active # None THEN [membership |-> of_active, session |-> sess]
        ELSE IF fallback # None
        THEN [membership |-> fallback,
              session |-> [sess EXCEPT ![user] = Some(fallback.group)]]
        ELSE [membership |-> None, session |-> sess]

_require_active_membership_stores_id(mships, sess, user) ==
    LET active_group_id == sess[user]
        of_active ==
            IF active_group_id = None THEN None
            ELSE first_membership({r \in mships :
                    r.user = user /\ r.group = Get(active_group_id)})
        fallback == first_membership({r \in mships : r.user = user})
    IN  IF of_active # None THEN [membership |-> of_active, session |-> sess]
        ELSE IF fallback # None
        THEN [membership |-> fallback,
              session |-> [sess EXCEPT ![user] = Some(fallback.id)]]
        ELSE [membership |-> None, session |-> sess]

\* _require_active_membership: the membership it returns and the session it leaves
_require_active_membership(mships, sess, user) ==
    LET active_group_id == sess[user]
        of_active ==
            IF active_group_id = None THEN None
            ELSE first_membership({r \in mships :
                    r.user = user /\ r.group = Get(active_group_id)})
        fallback == first_membership({r \in mships : r.user = user})
    IN  IF of_active # None THEN [membership |-> of_active, session |-> sess]
        ELSE IF fallback # None
        THEN [membership |-> fallback,
              session |-> [sess EXCEPT ![user] = Some(fallback.group)]]
        ELSE [membership |-> None, session |-> sess]

\* [m.user for m in GroupMembership.objects.filter(group=group).order_by("user__username")]
group_users(db, group) ==
    LET ids == Ascending({r.id : r \in {r \in db.memberships : r.group = group}})
        row(id) == CHOOSE r \in db.memberships : r.id = id
        ordered == SortedBy(ids, [i \in 1..Len(ids) |->
                                     SortKey(0, username(row(ids[i]).user))])
    IN  List([i \in 1..Len(ids) |-> row(ordered[i]).user])

-----------------------------------------------------------------------------
(* Matchday helpers                                                        *)

\* a GET parameter: None (absent or empty), [int |-> n] (text that int() parses)
\* or [text |-> s] (any other text)
IntParam(n) == [int |-> n]

TextParam(s) == [text |-> s]

\* int(param), None on ValueError
int_or_none(param) ==
    IF param # None /\ "int" \in DOMAIN param THEN Some(param.int) ELSE None

Max(ns) == CHOOSE x \in ns : \A y \in ns : y <= x

Min(ns) == CHOOSE x \in ns : \A y \in ns : x <= y

\* the matchday values of the tournament's matches, NULL left out
matchday_values(db) ==
    {Get(db.matches[id].matchday) : id \in {i \in DOMAIN db.matches : db.matches[i].matchday # None}}

\* the matches of a queryset in ORDER BY kickoff, home_team (ties in id order)
by_kickoff_home_team(db, ids) ==
    LET asc == Ascending(ids)
    IN  SortedBy(asc, [i \in 1..Len(asc) |->
                          SortKey(db.matches[asc[i]].kickoff, db.matches[asc[i]].home_team)])

_get_selected_matchday_of_any_match(db, md_param, t) ==
    LET selected_md == IF md_param = None THEN None ELSE int_or_none(md_param)
        future == {id \in DOMAIN db.matches : db.matches[id].kickoff >= t}
        next_match ==
            LET asc == Ascending(future)
            IN  SortedBy(asc, [i \in 1..Len(asc) |->
                                  SortKey(db.matches[asc[i]].kickoff, Empty)])[1]
    IN  IF selected_md # None /\ Get(selected_md) \in matchday_values(db) THEN selected_md
        ELSE IF future # {} THEN db.matches[next_match].matchday
        ELSE IF matchday_values(db) # {} THEN Some(Max(matchday_values(db)))
        ELSE None

\* _get_selected_matchday: Some(matchday) or None
_get_selected_matchday(db, md_param, t) ==
    LET selected_md == IF md_param = None THEN None ELSE int_or_none(md_param)
        future == {id \in DOMAIN db.matches :
                      db.matches[id].kickoff >= t /\ db.matches[id].matchday # None}
        next_match ==
            LET asc == Ascending(future)
            IN  SortedBy(asc, [i \in 1..Len(asc) |->
                                  SortKey(db.matches[asc[i]].kickoff, Empty)])[1]
    IN  IF selected_md # None /\ Get(selected_md) \in matchday_values(db) THEN selected_md
        ELSE IF future # {} THEN db.matches[next_match].matchday
        ELSE IF matchday_values(db) # {} THEN Some(Max(matchday_values(db)))
        ELSE None

\* _prev_next_md: <<prev_md, next_md>>, each Some(matchday) or None
_prev_next_md(db, matchday) ==
    LET before == {md \in matchday_values(db) : md < matchday}
        after  == {md \in matchday_values(db) : md > matchday}
    IN  << IF before = {} THEN None ELSE Some(Max(before)),
           IF after = {} THEN None ELSE Some(Min(after)) >>

-----------------------------------------------------------------------------
(* The reveal gate and the per-user bonus points of the views              *)

bonus_reveal_strictly_after(season_start, t) == season_start # None /\ t > Get(season_start)

\* bool(season_start and now >= season_start); a datetime is never falsy
bonus_reveal_of(season_start, t) == season_start # None /\ t >= Get(season_start)

\* BonusPrediction.objects.filter(group=group, tournament=tournament, user__in=users),
\* grouped: bonus_by_user.get(u, [])
group_bonus_of(db, group, users, u) ==
    SelectSeq(db.bonus_predictions, LAMBDA bp :
        bp.group = group /\ bp.user \in Range(users) /\ bp.user = u)

bonus_points_map_always(db, group, users, reveal, u) ==
    bonus_points_for_user(db.tournament, group_bonus_of(db, group, users, u))

\* the bonus points a view adds for user u: scored only when reveal
bonus_points_map(db, group, users, reveal, u) ==
    IF reveal THEN bonus_points_for_user(db.tournament, group_bonus_of(db, group, users, u))
    ELSE 0

my_bonus_whole_group(db, group, users, user) ==
    SelectSeq(db.bonus_predictions, LAMBDA bp : bp.group = group /\ bp.user \in Range(users))

\* my_bonus = bonus_by_user.get(request.user.id, [])
my_bonus_of(db, group, users, user) == group_bonus_of(db, group, users, user)

\* by_type.get(btype, "") with by_type = {p.bonus_type: p.value for p in preds}
pick_of(preds, btype) ==
    LET rows == SelectSeq(preds, LAMBDA bp : bp.bonus_type = btype)
    IN  IF rows = << >> THEN Empty ELSE rows[Len(rows)].value

\* rows in the order (-row[field], username.lower())
by_points_then_name_as_stored(rows, field) ==
    SortedBy(rows, [i \in 1..Len(rows) |->
                      SortKey(0 - rows[i][field], username(rows[i].user))])

by_points_then_name(rows, field) ==
    SortedBy(rows, [i \in 1..Len(rows) |->
                      SortKey(0 - rows[i][field], Lower(username(rows[i].user)))])

-----------------------------------------------------------------------------
(* spieltag                                                                *)

\* the bonus tab: one row per user with the points and the six picks
spieltag_bonus_row(t, preds, u) ==
    [user |-> u,
     points |-> bonus_points_for_user(t, preds),
     picks |-> [btype \in Range(BONUS_TYPES) |-> pick_of(preds, btype)]]

spieltag_bonus_rows(db, group, users) ==
    by_points_then_name(
        List([i \in 1..Len(users) |->
                spieltag_bonus_row(db.tournament,
                                   group_bonus_of(db, group, users, users[i]), users[i])]),
        "points")

spieltag_cell_revealed_after_kickoff(db, group, u, id, t) ==
    LET m      == db.matches[id]
        reveal == m.kickoff < t
        p      == RowOrNone(db.predictions, <<u, group, id>>)
    IN  [reveal |-> reveal, pred |-> p,
         points |-> IF reveal THEN Some(points_for_prediction(m, p)) ELSE None]

spieltag_cell_always_scored(db, group, u, id, t) ==
    LET m == db.matches[id]
        p == RowOrNone(db.predictions, <<u, group, id>>)
    IN  [reveal |-> m.kickoff <= t, pred |-> p, points |-> Some(points_for_prediction(m, p))]

\* one cell of the matrix: user u, match id
spieltag_cell(db, group, u, id, t) ==
    LET m      == db.matches[id]
        reveal == m.kickoff <= t
        p      == RowOrNone(db.predictions, <<u, group, id>>)
    IN  [reveal |-> reveal, pred |-> p,
         points |-> IF reveal THEN Some(points_for_prediction(m, p)) ELSE None]

\* total_points of a row: the points of its revealed cells
spieltag_total(cells) ==
    Sum([i \in 1..Len(cells) |-> IF cells[i].points # None THEN Get(cells[i].points) ELSE 0])

\* the row of user u over the matches of the matchday
spieltag_row_of(u, cells, bonus) ==
    [user |-> u, cells |-> cells, total_points |-> spieltag_total(cells),
     bonus_points |-> bonus, total_with_bonus |-> spieltag_total(cells) + bonus]

spieltag_row(db, group, users, reveal, match_ids, u, t) ==
    spieltag_row_of(u,
        List([i \in 1..Len(match_ids) |-> spieltag_cell(db, group, u, match_ids[i], t)]),
        bonus_points_map(db, group, users, reveal, u))

\* the header of one match column
spieltag_match(id, m) ==
    [match |-> id,
     result |-> IF m.home_score # None /\ m.away_score # None
                THEN Some(<<Get(m.home_score), Get(m.away_score)>>)
                ELSE None]

\* the matrix of the matchday: the match columns, the sorted rows, the neighbours
spieltag_matrix(db, group, users, bonus_reveal, match_ids, prev_next, t) ==
    [matches |-> List([i \in 1..Len(match_ids) |->
                        spieltag_match(match_ids[i], db.matches[match_ids[i]])]),
     table_rows |->
        by_points_then_name(
            List([i \in 1..Len(users) |->
                    spieltag_row(db, group, users, bonus_reveal, match_ids, users[i], t)]),
            IF bonus_reveal THEN "total_with_bonus" ELSE "total_points"),
     prev_md |-> prev_next[1], next_md |-> prev_next[2]]

\* the matrix when no matchday can be selected
spieltag_no_matrix ==
    [matches |-> << >>, table_rows |-> << >>, prev_md |-> None, next_md |-> None]

\* the rendered context, from the values the view has computed
spieltag_render(db, group, req, tab, bonus_reveal, users, matchday) ==
    [view |-> "spieltag", group |-> group, tab |-> tab, matchday |-> matchday,
     now |-> req.now, season_start |-> db.tournament.season_start,
     bonus_reveal |-> bonus_reveal,
     bonus_rows |-> IF tab = "bonus" /\ bonus_reveal
                    THEN spieltag_bonus_rows(db, group, users)
                    ELSE << >>,
     my_bonus |-> IF tab = "bonus"
                  THEN Some(my_bonus_of(db, group, users, req.user))
                  ELSE None]
    @@ IF matchday = None THEN spieltag_no_matrix
       ELSE spieltag_matrix(db, group, users, bonus_reveal,
                by_kickoff_home_team(db,
                    {id \in DOMAIN db.matches : db.matches[id].matchday = matchday}),
                _prev_next_md(db, Get(matchday)), req.now)

spieltag_context(db, group, req) ==
    spieltag_render(db, group, req,
        IF req.tab \in {"matches", "bonus"} THEN req.tab ELSE "matches",
        bonus_reveal_of(db.tournament.season_start, req.now),
        group_users(db, group),
        _get_selected_matchday(db, req.md, req.now))

\* redirect("join_group")
RedirectJoinGroup == [redirect |-> "join_group"]

-----------------------------------------------------------------------------
(* tabelle                                                                 *)

\* int(request.GET.get(name, default)), fallback on ValueError
int_param(param, default, fallback) ==
    IF param = None THEN default
    ELSE IF "int" \in DOMAIN param THEN param.int
    ELSE fallback

\* seq[lo:hi] of Python, 0 <= lo
Slice(seq, lo, hi) == SubSeq(seq, lo + 1, IF hi < Len(seq) THEN hi ELSE Len(seq))

\* the sum over the predictions of user u in the group on matches with a result
finished_points(db, group, u) ==
    LET keys == {k \in DOMAIN db.predictions :
                    /\ k[1] = u /\ k[2] = group
                    /\ k[3] \in DOMAIN db.matches
                    /\ db.matches[k[3]].home_score # None
                    /\ db.matches[k[3]].away_score # None}
        ids  == Ascending({k[3] : k \in keys})
    IN  Sum([i \in 1..Len(ids) |->
                points_for_prediction(db.matches[ids[i]], db.predictions[<<u, group, ids[i]>>])])

\* total_points_all[u]: the match points, plus the bonus points when reveal
total_points_all(db, group, users, reveal, u) ==
    finished_points(db, group, u) + bonus_points_map(db, group, users, reveal, u)

has_result(m) == m.home_score # None /\ m.away_score # None

md_points_zero_when_unscored(db, group, u, md) ==
    LET md_matches == Ascending({id \in DOMAIN db.matches : db.matches[id].matchday = Some(md)})
        scored     == SelectSeq(md_matches, LAMBDA id : has_result(db.matches[id]))
    IN  Some(Sum([i \in 1..Len(scored) |->
                points_for_prediction(db.matches[scored[i]],
                                      RowOrNone(db.predictions, <<u, group, scored[i]>>))]))

md_points_of_first_match(db, group, u, md) ==
    LET md_matches == Ascending({id \in DOMAIN db.matches : db.matches[id].matchday = Some(md)})
        scored     == SelectSeq(md_matches, LAMBDA id : has_result(db.matches[id]))
    IN  IF scored = << >> THEN None
        ELSE Some(points_for_prediction(db.matches[scored[1]],
                                        RowOrNone(db.predictions, <<u, group, scored[1]>>)))

\* md_points[u][md]: Some(points) or None when no match of md has a result
md_points(db, group, u, md) ==
    LET md_matches == Ascending({id \in DOMAIN db.matches : db.matches[id].matchday = Some(md)})
        scored     == SelectSeq(md_matches, LAMBDA id : has_result(db.matches[id]))
    IN  IF scored = << >> THEN None
        ELSE Some(Sum([i \in 1..Len(scored) |->
                points_for_prediction(db.matches[scored[i]],
                                      RowOrNone(db.predictions, <<u, group, scored[i]>>))]))

\* (pts, uid) with pts = md_points or 0
rank_entry(q, u) == [pts |-> IF q # None THEN Get(q) ELSE 0, user |-> u]

rank_at_dense(sortable, idx) ==
    Cardinality({sortable[j].pts : j \in 1..idx})

\* the index at which the run of equal points that holds idx began
rank_at(sortable, idx) ==
    Min({j \in 1..idx : \A k \in j..idx : sortable[k].pts = sortable[idx].pts})

\* the rank the loop over sortable gives user u
rank_in(sortable, u) == rank_at(sortable, CHOOSE i \in 1..Len(sortable) : sortable[i].user = u)

\* rank_by_md[md][u]: Some(rank) or None when no match of md has a result
rank_by_md(db, group, users, md, u) ==
    IF \E id \in DOMAIN db.matches :
            db.matches[id].matchday = Some(md) /\ has_result(db.matches[id])
    THEN Some(rank_in(by_points_then_name(
                        List([i \in 1..Len(users) |->
                                rank_entry(md_points(db, group, users[i], md), users[i])]),
                        "pts"),
                      u))
    ELSE None

rank_difference_reversed(prev, cur) ==
    IF cur = None \/ prev = None THEN None ELSE Some(Get(cur) - Get(prev))

\* prev - cur, None when either rank is None
rank_difference(prev, cur) ==
    IF cur = None \/ prev = None THEN None ELSE Some(Get(prev) - Get(cur))

rankdiff_by_md_beyond_window(db, group, users, shown_matchdays, i, u) ==
    IF shown_matchdays[i] = Min(matchday_values(db)) THEN None
    ELSE rank_difference(rank_by_md(db, group, users,
                                    Max({md \in matchday_values(db) : md < shown_matchdays[i]}), u),
                         rank_by_md(db, group, users, shown_matchdays[i], u))

\* rankdiff_by_md[shown[i]][u]: previous column's rank minus this one's, or None
rankdiff_by_md(db, group, users, shown_matchdays, i, u) ==
    IF i = 1 THEN None
    ELSE rank_difference(rank_by_md(db, group, users, shown_matchdays[i - 1], u),
                         rank_by_md(db, group, users, shown_matchdays[i], u))

\* one cell of the table: user u, the i-th shown matchday
tabelle_cell(db, group, users, shown_matchdays, view, i, u) ==
    IF view = "mdpoints" THEN md_points(db, group, u, shown_matchdays[i])
    ELSE IF view = "ranks" THEN rank_by_md(db, group, users, shown_matchdays[i], u)
    ELSE rankdiff_by_md(db, group, users, shown_matchdays, i, u)

tabelle_row(db, group, users, shown_matchdays, view, bonus_reveal, u) ==
    [user |-> u,
     cells |-> List([i \in 1..Len(shown_matchdays) |->
                        tabelle_cell(db, group, users, shown_matchdays, view, i, u)]),
     bonus |-> IF bonus_reveal
               THEN Some(bonus_points_map(db, group, users, bonus_reveal, u))
               ELSE None,
     total |-> total_points_all(db, group, users, bonus_reveal, u)]

tabelle_from_idx_last_column(asked_from, count, n) ==
    IF Max({asked_from, 0}) >= n THEN Max({0, n - 1}) ELSE Max({asked_from, 0})

tabelle_from_idx_unclamped(asked_from, count, n) == Max({asked_from, 0})

\* the from_idx clamp: below 0 it is 0, past the end it is the last page
tabelle_from_idx(asked_from, count, n) ==
    IF Max({asked_from, 0}) >= n THEN Max({0, n - count}) ELSE Max({asked_from, 0})

\* the page of the table that starts at from_idx
tabelle_page(db, group, users, matchdays, shown_matchdays, view, bonus_reveal, from_idx, count) ==
    [matchdays |-> matchdays, shown_matchdays |-> shown_matchdays,
     table_rows |->
        by_points_then_name(
            List([i \in 1..Len(users) |->
                    tabelle_row(db, group, users, shown_matchdays, view, bonus_reveal,
                                users[i])]),
            "total"),
     prev_from |-> IF from_idx - count >= 0 THEN Some(from_idx - count) ELSE None,
     next_from |-> IF from_idx + count < Len(matchdays)
                   THEN Some(from_idx + count) ELSE None,
     season_start |-> db.tournament.season_start]

\* the page when the tournament has no matchdays
tabelle_no_page ==
    [matchdays |-> << >>, shown_matchdays |-> << >>, table_rows |-> << >>,
     prev_from |-> None, next_from |-> None]

\* the rendered context, from the values the view has computed
tabelle_render(db, group, req, view, bonus_reveal, from_idx, count, matchdays) ==
    [view |-> view, group |-> group, count |-> count, me_id |-> req.user,
     bonus_enabled |-> TRUE, bonus_reveal |-> bonus_reveal]
    @@ IF matchdays = << >> THEN tabelle_no_page
       ELSE tabelle_page(db, group, group_users(db, group), matchdays,
                         Slice(matchdays, from_idx, from_idx + count),
                         view, bonus_reveal, from_idx, count)

\* max(4, min(count, 15))
tabelle_count(req) == Max({4, Min({int_param(req.count, 8, 8), 15})})

\* the context tabelle renders for a member of group; req holds the user, the GET
\* parameters view, from and count, and the time timezone.now() returned
tabelle_context(db, group, req) ==
    tabelle_render(db, group, req,
        IF req.view \in {"mdpoints", "ranks", "rankdiff"} THEN req.view ELSE "mdpoints",
        bonus_reveal_of(db.tournament.season_start, req.now),
        tabelle_from_idx(int_param(req.from, 0, 0), tabelle_count(req),
                         Cardinality(matchday_values(db))),
        tabelle_count(req),
        Ascending(matchday_values(db)))

-----------------------------------------------------------------------------
(* Scoring one prediction: the inputs are drawn, then the call is made     *)

OptGoals == {None} \cup {Some(g) : g \in 0..MaxGoals}

InitScore ==
    /\ now = 0
    /\ tournament = TournamentRow(None, Empty, Empty, Empty, Empty, Empty)
    /\ \E hs \in OptGoals, as \in OptGoals :
          matches = [m \in {1} |-> MatchRow(<<"a">>, 0, Some(1), hs, as)]
    /\ \/ predictions = NoRows
       \/ \E ph \in OptGoals, pa \in OptGoals :
             predictions = [k \in {<<1, 1, 1>>} |-> PredictionRow(ph, pa)]
    /\ bonus_predictions = << >>
    /\ memberships = {MembershipRow(1, 1, 1)}
    /\ session = [u \in {1} |-> None]
    /\ groups = {m.group : m \in memberships}
    /\ request = Idle
    /\ response = Idle

\* points_for_prediction(m, pred_map.get((u.id, m.id)))
PointsCall ==
    /\ request = Idle
    /\ \E m \in DOMAIN matches :
          /\ request' = [op |-> "points_for_prediction", user |-> 1, match |-> m]
          /\ response' = points_for_prediction_call(matches[m], RowOrNone(predictions, <<1, 1, m>>))
    /\ UNCHANGED <<now, tournament, matches, predictions, bonus_predictions, memberships,
                   groups, session>>

NextScore == PointsCall

SpecScore == InitScore /\ [][NextScore]_vars

-----------------------------------------------------------------------------
(* Scoring one user's bonus picks: the tournament's outcomes and the       *)
(* user's rows are drawn, then the call is made                            *)

Reverse(s) == [i \in 1..Len(s) |-> s[Len(s) + 1 - i]]

\* the BonusPrediction rows of user u: one row per type that has a pick,
\* stored in the order of types (unique_bonus_prediction_per_group)
RECURSIVE RowsOf(_, _, _)
RowsOf(u, picks, types) ==
    IF types = << >> THEN << >>
    ELSE (IF picks[Head(types)] = None THEN << >>
          ELSE << BonusRow(u, 1, Head(types), Get(picks[Head(types)])) >>)
         \o RowsOf(u, picks, Tail(types))

\* outcomes an admin can enter in a Tournament field
OutcomesA == {Empty, <<"A", " ">>}

OutcomesB == {<<" ">>, <<"a">>}

OutcomesC == {Empty, <<"b">>}

OutcomesD == {<<" ">>, <<" ", "B">>}

RelegatedLists == {Empty, <<" ", ",", " ">>, <<"a">>, <<"A", ",", " ", "b">>}

BonusTournaments ==
    {TournamentRow(None, h, m, c, s, r) :
        h \in OutcomesA, m \in OutcomesB, c \in OutcomesC, s \in OutcomesD,
        r \in RelegatedLists}

\* what a row can hold per type: no row, or a value
WidePicks == {None, Some(<<" ">>), Some(<<"a">>), Some(<<"B", " ">>)}

NarrowPicks == {None, Some(<<"a">>), Some(<<"b">>)}

TwoPicks == {None, Some(<<"b">>)}

RelegationPicks == {None, Some(<<"a">>), Some(<<" ", "A">>), Some(<<"b">>)}

PickChoices ==
    {[herbstmeister |-> h, meister |-> m, trainer_first |-> c, topscorer |-> s,
      relegation1 |-> r1, relegation2 |-> r2] :
        h \in WidePicks, m \in WidePicks, c \in TwoPicks, s \in NarrowPicks,
        r1 \in RelegationPicks, r2 \in RelegationPicks}

InitBonus ==
    /\ now = 0
    /\ tournament \in BonusTournaments
    /\ matches = NoRows
    /\ predictions = NoRows
    /\ \E picks \in PickChoices, order \in {BONUS_TYPES, Reverse(BONUS_TYPES)} :
          bonus_predictions = RowsOf(1, picks, order)
    /\ memberships = {MembershipRow(1, 1, 1)}
    /\ session = [u \in {1} |-> None]
    /\ groups = {m.group : m \in memberships}
    /\ request = Idle
    /\ response = Idle

\* bonus_points_for_user(tournament, bonus_by_user.get(u.id, []))
BonusCall ==
    /\ request = Idle
    /\ request' = [op |-> "bonus_points_for_user", user |-> 1]
    /\ response' = Return(bonus_points_for_user(tournament, bonus_by_user(bonus_predictions, 1)))
    /\ UNCHANGED <<now, tournament, matches, predictions, bonus_predictions, memberships,
                   groups, session>>

NextBonus == BonusCall

SpecBonus == InitBonus /\ [][NextBonus]_vars

-----------------------------------------------------------------------------
(* The views of a group while the clock runs                               *)

\* the database as the views read it
DB == Database(tournament, matches, predictions, bonus_predictions, memberships)

\* the bonus rows one user can have stored: none, a right champion, two right
\* relegated teams
UserBonusChoices ==
    { << >>,
      << [bonus_type |-> "meister", value |-> <<"A", " ">>] >>,
      << [bonus_type |-> "relegation1", value |-> <<"a">>],
         [bonus_type |-> "relegation2", value |-> <<"b">>] >> }

\* the BonusPrediction table when user u stores choice[u], rows in user order
RECURSIVE BonusTable(_, _)
BonusTable(choice, u) ==
    IF u > MaxUsers THEN << >>
    ELSE [i \in 1..Len(choice[u]) |->
            BonusRow(u, 1, choice[u][i].bonus_type, choice[u][i].value)]
         \o BonusTable(choice, u + 1)

InitViews ==
    /\ now = 0
    /\ \E start \in {None} \cup {Some(t) : t \in 0..MaxTime} :
          tournament = TournamentRow(start, Empty, <<"a">>, Empty, Empty,
                                     <<"a", ",", " ", "B">>)
    /\ \E late \in {None, Some(1)} :
          matches = (1 :> MatchRow(<<"a">>, 0, Some(1), Some(1), Some(0)))
                      @@ (2 :> MatchRow(<<"b">>, 1, Some(2), late, late))
    /\ \E early \in {NoRows, <<1, 1, 1>> :> PredictionRow(Some(1), Some(0))} :
          predictions = early @@ (<<2, 1, 1>> :> PredictionRow(Some(2), Some(1)))
                              @@ (<<1, 1, 2>> :> PredictionRow(Some(1), Some(1)))
    /\ \E choice \in [Users -> UserBonusChoices] : bonus_predictions = BonusTable(choice, 1)
    /\ memberships = {MembershipRow(u, u, 1) : u \in Users}
    /\ session = [u \in Users |-> Some(1)]
    /\ groups = {m.group : m \in memberships}
    /\ request = Idle
    /\ response = Idle

\* timezone.now() advances; a view reads the clock once, so the clock is held while
\* a request is being served
Tick ==
    /\ request = Idle
    /\ now < MaxTime
    /\ now' = now + 1
    /\ UNCHANGED <<tournament, matches, predictions, bonus_predictions, memberships, groups,
                   session, request, response>>

\* GET spieltag?tab=..&md=..
Spieltag(u, tab, md) ==
    LET active == _require_active_membership(memberships, session, u)
        req    == [op |-> "spieltag", user |-> u, tab |-> tab, md |-> md, now |-> now]
    IN  /\ request = Idle
        /\ request' = req
        /\ session' = active.session
        /\ response' = IF active.membership = None THEN RedirectJoinGroup
                       ELSE spieltag_context(DB, active.membership.group, req)
        /\ UNCHANGED <<now, tournament, matches, predictions, bonus_predictions, memberships,
                       groups>>

\* GET tabelle?view=..&from=..&count=..
Tabelle(u, view, from, count) ==
    LET active == _require_active_membership(memberships, session, u)
        req    == [op |-> "tabelle", user |-> u, view |-> view, from |-> from,
                   count |-> count, now |-> now]
    IN  /\ request = Idle
        /\ request' = req
        /\ session' = active.session
        /\ response' = IF active.membership = None THEN RedirectJoinGroup
                       ELSE tabelle_context(DB, active.membership.group, req)
        /\ UNCHANGED <<now, tournament, matches, predictions, bonus_predictions, memberships,
                       groups>>

\* the response is sent; the next request can be served
Deliver ==
    /\ request # Idle
    /\ request' = Idle
    /\ response' = Idle
    /\ UNCHANGED <<now, tournament, matches, predictions, bonus_predictions, memberships, groups,
                   session>>

NextViews ==
    \/ Tick
    \/ Deliver
    \/ \E u \in Users, tab \in {"matches", "bonus"}, md \in {None, IntParam(1)} :
          Spieltag(u, tab, md)
    \/ \E u \in Users, view \in {"mdpoints", "ranks", "rankdiff"} :
          Tabelle(u, view, None, None)

SpecViews == InitViews /\ [][NextViews]_vars

-----------------------------------------------------------------------------
(* bonus_tips: the bonus picks of a user are edited until the season starts *)

\* Match row with both team names (BonusPredictionForm reads home and away)
FixtureRow(home, away, kickoff, matchday, hs, as) ==
    [home_team |-> home, away_team |-> away, kickoff |-> kickoff, matchday |-> matchday,
     home_score |-> hs, away_score |-> as]

\* the values BonusPredictionForm offers besides "": the stripped, non-blank team names
team_choices(ms) ==
    {Strip(ms[id].home_team) : id \in {i \in DOMAIN ms : Strip(ms[i].home_team) # Empty}}
    \cup {Strip(ms[id].away_team) : id \in {i \in DOMAIN ms : Strip(ms[i].away_team) # Empty}}

\* BonusPredictionForm.is_valid(): every field is required and one of the choices, and
\* clean() rejects relegation1 = relegation2; post maps the submitted field names to text
form_is_valid(post, choices) ==
    /\ \A f \in Range(BONUS_TYPES) :
          f \in DOMAIN post /\ post[f] # Empty /\ post[f] \in choices
    /\ post["relegation1"] # post["relegation2"]

bonus_locked_strictly_after(season_start, t) == season_start # None /\ t > Get(season_start)

\* season_start and timezone.now() >= season_start
bonus_locked(season_start, t) == season_start # None /\ t >= Get(season_start)

\* BonusPrediction.objects.update_or_create(user, group, bonus_type, defaults={value})
update_or_create_bonus(rows, u, g, btype, value) ==
    IF \E i \in 1..Len(rows) :
          rows[i].user = u /\ rows[i].group = g /\ rows[i].bonus_type = btype
    THEN List([i \in 1..Len(rows) |->
                IF rows[i].user = u /\ rows[i].group = g /\ rows[i].bonus_type = btype
                THEN [rows[i] EXCEPT !.value = value]
                ELSE rows[i]])
    ELSE Append(rows, BonusRow(u, g, btype, value))

\* for field, value in form.cleaned_data.items(): update_or_create, from field i on
RECURSIVE save_bonus(_, _, _, _, _)
save_bonus(rows, u, g, post, i) ==
    IF i > Len(BONUS_TYPES) THEN rows
    ELSE save_bonus(update_or_create_bonus(rows, u, g, BONUS_TYPES[i], post[BONUS_TYPES[i]]),
                    u, g, post, i + 1)

\* initial = {bp.bonus_type: bp.value for bp in existing}
bonus_initial(rows, u, g) ==
    [f \in {bp.bonus_type : bp \in {r \in Range(rows) : r.user = u /\ r.group = g}} |->
        pick_of(SelectSeq(rows, LAMBDA r : r.user = u /\ r.group = g), f)]

\* bonus_tips for a member of group g at time t: the BonusPrediction table it leaves
\* and what it answers; req holds the user, the method and the POST data
bonus_tips_member(db, g, req, t) ==
    IF bonus_locked(db.tournament.season_start, t)
    THEN [bonus_predictions |-> db.bonus_predictions,
          response |-> [redirect |-> "tippen", message |-> "Bonustipps sind gesperrt."]]
    ELSE IF req.method = "POST" /\ form_is_valid(req.post, team_choices(db.matches))
    THEN [bonus_predictions |-> save_bonus(db.bonus_predictions, req.user, g, req.post, 1),
          response |-> [redirect |-> "bonus_tips", message |-> "Bonustipps gespeichert."]]
    ELSE [bonus_predictions |-> db.bonus_predictions,
          response |-> [view |-> "bonus", group |-> g,
                        form |-> IF req.method = "POST" THEN req.post
                                 ELSE bonus_initial(db.bonus_predictions, req.user, g),
                        bound |-> req.method = "POST",
                        season_start |-> db.tournament.season_start]]

\* bonus_tips: redirect("join_group") without a membership
bonus_tips(db, membership, req, t) ==
    IF membership = None
    THEN [bonus_predictions |-> db.bonus_predictions, response |-> RedirectJoinGroup]
    ELSE bonus_tips_member(db, membership.group, req, t)

\* the fixtures of the tournament: team names as stored, one with a trailing blank,
\* one away team left blank
Fixtures ==
    (1 :> FixtureRow(<<"a">>, <<"b", " ">>, 1, Some(1), None, None))
      @@ (2 :> FixtureRow(<<"B">>, <<" ">>, 2, Some(2), None, None))

\* a submitted bonus form
BonusPost(herbst, meister, trainer, scorer, r1, r2) ==
    [herbstmeister |-> herbst, meister |-> meister, trainer_first |-> trainer,
     topscorer |-> scorer, relegation1 |-> r1, relegation2 |-> r2]

\* the POST data the requests submit: two valid forms, one with relegation1 =
\* relegation2, one with a value that is no choice, one without the topscorer field
BonusPosts ==
    { BonusPost(<<"a">>, <<"a">>, <<"a">>, <<"a">>, <<"a">>, <<"b">>),
      BonusPost(<<"B">>, <<"b">>, <<"B">>, <<"B">>, <<"b">>, <<"a">>),
      BonusPost(<<"a">>, <<"a">>, <<"a">>, <<"a">>, <<"a">>, <<"a">>),
      BonusPost(<<"a">>, <<"b", " ">>, <<"a">>, <<"a">>, <<"a">>, <<"b">>),
      [f \in {"herbstmeister", "meister", "trainer_first", "relegation1", "relegation2"}
          |-> <<"a">>] }

InitBonusTips ==
    /\ now = 0
    /\ \E start \in {None} \cup {Some(t) : t \in 0..MaxTime} :
          tournament = TournamentRow(start, Empty, <<"b">>, Empty, Empty, <<"a">>)
    /\ matches = Fixtures
    /\ predictions = NoRows
    /\ \E stored \in {<< >>, << BonusRow(1, 1, "meister", <<"b">>) >>} :
          bonus_predictions = stored
    /\ \E members \in {Users, Users \ {MaxUsers}} :
          memberships = {MembershipRow(u, u, 1) : u \in members}
    /\ session = [u \in Users |-> None]
    /\ groups = {m.group : m \in memberships}
    /\ request = Idle
    /\ response = Idle

\* GET or POST bonus_tips by user u
BonusTips(u, method, post) ==
    LET active == _require_active_membership(memberships, session, u)
        req    == [op |-> "bonus_tips", user |-> u, method |-> method, post |-> post,
                   now |-> now]
        out    == bonus_tips(DB, active.membership, req, now)
    IN  /\ request = Idle
        /\ request' = req
        /\ session' = active.session
        /\ bonus_predictions' = out.bonus_predictions
        /\ response' = out.response
        /\ UNCHANGED <<now, tournament, matches, predictions, memberships, groups>>

NextBonusTips ==
    \/ Tick
    \/ Deliver
    \/ \E u \in Users : BonusTips(u, "GET", NoRows)
    \/ \E u \in Users, post \in BonusPosts : BonusTips(u, "POST", post)

SpecBonusTips == InitBonusTips /\ [][NextBonusTips]_vars

-----------------------------------------------------------------------------
(* tippen: the predictions of a matchday are saved until kickoff           *)

Digits == <<"0", "1", "2", "3", "4", "5", "6", "7", "8", "9">>

IsDigit(c) == c \in Range(Digits)

DigitValue(c) == (CHOOSE i \in 1..Len(Digits) : Digits[i] = c) - 1

\* the value of a non-empty run of digits
RECURSIVE DigitsValue(_, _)
DigitsValue(s, acc) ==
    IF s = Empty THEN acc ELSE DigitsValue(Tail(s), 10 * acc + DigitValue(Head(s)))

\* int(s): Some(n), or None where int raises ValueError; blanks around the number and
\* one sign before it are accepted
int_of(s) ==
    LET body   == Strip(s)
        signed == body # Empty /\ Head(body) \in {"+", "-"}
        digits == IF signed THEN Tail(body) ELSE body
    IN  IF digits = Empty \/ \E i \in 1..Len(digits) : ~IsDigit(digits[i]) THEN None
        ELSE IF signed /\ Head(body) = "-" THEN Some(0 - DigitsValue(digits, 0))
        ELSE Some(DigitsValue(digits, 0))

\* request.POST.get(f"pred_home_{m.id}", ""), and pred_away; post maps match ids to
\* the submitted pair of texts
post_value(post, id, side) == IF id \in DOMAIN post THEN post[id][side] ELSE Empty

match_locked_after_kickoff(m, t) == m.kickoff < t

\* m.kickoff <= now
match_locked(m, t) == m.kickoff <= t

tip_values_of_any_integer(post, id) ==
    LET home_val == Strip(post_value(post, id, "home"))
        away_val == Strip(post_value(post, id, "away"))
        ph == int_of(home_val)
        pa == int_of(away_val)
    IN  IF home_val = Empty \/ away_val = Empty THEN None
        ELSE IF ph = None \/ pa = None THEN None
        ELSE Some(<<Get(ph), Get(pa)>>)

\* the values the loop saves for match id: Some(<<ph, pa>>), or None when it continues
tip_values(post, id) ==
    LET home_val == Strip(post_value(post, id, "home"))
        away_val == Strip(post_value(post, id, "away"))
        ph == int_of(home_val)
        pa == int_of(away_val)
    IN  IF home_val = Empty \/ away_val = Empty THEN None
        ELSE IF ph = None \/ pa = None THEN None
        ELSE IF Get(ph) < 0 \/ Get(pa) < 0 THEN None
        ELSE Some(<<Get(ph), Get(pa)>>)

\* Prediction.objects.update_or_create(user, group, match, defaults={pred_home, pred_away})
update_or_create_prediction(preds, u, g, id, ph, pa) ==
    [k \in DOMAIN preds \cup {<<u, g, id>>} |->
        IF k = <<u, g, id>> THEN PredictionRow(Some(ph), Some(pa)) ELSE preds[k]]

\* the loop of the POST from the i-th match on: the table, saved and skipped_locked
RECURSIVE save_tips(_, _, _, _, _, _, _, _)
save_tips(out, ms, u, g, match_ids, post, t, i) ==
    IF i > Len(match_ids) THEN out
    ELSE IF match_locked(ms[match_ids[i]], t)
    THEN save_tips([out EXCEPT !.skipped_locked = @ + 1], ms, u, g, match_ids, post, t, i + 1)
    ELSE IF tip_values(post, match_ids[i]) = None
    THEN save_tips(out, ms, u, g, match_ids, post, t, i + 1)
    ELSE save_tips([predictions |->
                        update_or_create_prediction(out.predictions, u, g, match_ids[i],
                            Get(tip_values(post, match_ids[i]))[1],
                            Get(tip_values(post, match_ids[i]))[2]),
                    saved |-> out.saved + 1,
                    skipped_locked |-> out.skipped_locked],
                   ms, u, g, match_ids, post, t, i + 1)

\* the message of the redirect after a POST
tippen_message(saved, skipped_locked) ==
    IF saved > 0
    THEN IF skipped_locked > 0 THEN [level |-> "success", saved |-> saved,
                                     skipped_locked |-> skipped_locked]
         ELSE [level |-> "success", saved |-> saved]
    ELSE [level |-> "info"]

\* the answer to a POST whose loop ended in out
tippen_saved(out, matchday) ==
    [predictions |-> out.predictions,
     response |-> [redirect |-> "tippen", md |-> matchday,
                   message |-> tippen_message(out.saved, out.skipped_locked)]]

\* the page of a matchday
tippen_page(db, g, u, matchday, match_ids, prev_next, t) ==
    [view |-> "tippen", group |-> g, matchday |-> matchday,
     rows |-> List([i \in 1..Len(match_ids) |->
                [match |-> match_ids[i],
                 pred |-> RowOrNone(db.predictions, <<u, g, match_ids[i]>>)]]),
     prev_md |-> prev_next[1], next_md |-> prev_next[2], now |-> t]

\* tippen once the matchday is selected; t is the first timezone.now(), lock_time the
\* one the POST reads
tippen_matchday(db, g, req, matchday, match_ids, t, lock_time) ==
    IF matchday = None
    THEN [predictions |-> db.predictions,
          response |-> [view |-> "tippen", group |-> g, matchday |-> None, rows |-> << >>,
                        prev_md |-> None, next_md |-> None, now |-> t]]
    ELSE IF req.method = "POST"
    THEN tippen_saved(save_tips([predictions |-> db.predictions, saved |-> 0,
                                 skipped_locked |-> 0],
                                db.matches, req.user, g, match_ids, req.post, lock_time, 1),
                      matchday)
    ELSE [predictions |-> db.predictions,
          response |-> tippen_page(db, g, req.user, matchday, match_ids,
                                   _prev_next_md(db, Get(matchday)), t)]

\* _matches_for_md(md), as match ids; a selected matchday always has a match, so the
\* second selection "if not matches.exists()" finds the same matchday
matches_for_md(db, matchday) ==
    IF matchday = None THEN << >>
    ELSE by_kickoff_home_team(db,
            {id \in DOMAIN db.matches : db.matches[id].matchday = matchday})

\* tippen for a member of group g
tippen_member(db, g, req, t, lock_time) ==
    tippen_matchday(db, g, req, _get_selected_matchday(db, req.md, t),
                    matches_for_md(db, _get_selected_matchday(db, req.md, t)), t, lock_time)

\* tippen: redirect("join_group") without a membership
tippen(db, membership, req, t, lock_time) ==
    IF membership = None
    THEN [predictions |-> db.predictions, response |-> RedirectJoinGroup]
    ELSE tippen_member(db, membership.group, req, t, lock_time)

\* the matches of matchday 1: the first starts at 1, the second at 2; both may carry
\* a result whatever the clock says
TipFixtures(result) ==
    (1 :> FixtureRow(<<"a">>, <<"b">>, 1, Some(1), result, result))
      @@ (2 :> FixtureRow(<<"b">>, <<"a">>, 2, Some(1), result, result))

\* one submitted pair of inputs
TipPost(home, away) == [home |-> home, away |-> away]

\* the POST data the requests submit: two full posts, one with an empty and a
\* non-numeric input, one with a negative number and nothing for the second match
TipPosts ==
    { (1 :> TipPost(<<"1">>, <<"0">>)) @@ (2 :> TipPost(<<" ", "2">>, <<"2">>)),
      (1 :> TipPost(<<"0">>, <<"1", "0">>)) @@ (2 :> TipPost(<<"2">>, <<"2", " ">>)),
      (1 :> TipPost(<<"1">>, Empty)) @@ (2 :> TipPost(<<"x">>, <<"2">>)),
      (1 :> TipPost(<<"-", "1">>, <<"0">>)) }

InitTippen ==
    /\ now = 0
    /\ tournament = TournamentRow(None, Empty, Empty, Empty, Empty, Empty)
    /\ \E result \in {None, Some(1)} : matches = TipFixtures(result)
    /\ predictions = NoRows
    /\ bonus_predictions = << >>
    /\ \E members \in {Users, Users \ {MaxUsers}} :
          memberships = {MembershipRow(u, u, 1) : u \in members}
    /\ session = [u \in Users |-> Some(1)]
    /\ groups = {m.group : m \in memberships}
    /\ request = Idle
    /\ response = Idle

\* GET or POST tippen by user u; the POST reads the clock a second time, at lock_time
Tippen(u, method, md, post, lock_time) ==
    LET active == _require_active_membership(memberships, session, u)
        req    == [op |-> "tippen", user |-> u, method |-> method, md |-> md,
                   post |-> post, now |-> now, lock_time |-> lock_time]
        out    == tippen(DB, active.membership, req, now, lock_time)
    IN  /\ request = Idle
        /\ request' = req
        /\ session' = active.session
        /\ now' = lock_time
        /\ predictions' = out.predictions
        /\ response' = out.response
        /\ UNCHANGED <<tournament, matches, bonus_predictions, memberships, groups>>

NextTippen ==
    \/ Tick
    \/ Deliver
    \/ \E u \in Users, md \in {None, IntParam(1)} : Tippen(u, "GET", md, NoRows, now)
    \/ \E u \in Users, md \in {None, IntParam(1)}, post \in TipPosts,
          lock_time \in {t \in {now, now + 1} : t <= MaxTime} :
          Tippen(u, "POST", md, post, lock_time)

SpecTippen == InitTippen /\ [][NextTippen]_vars

-----------------------------------------------------------------------------
(* tippen with POSTs that mix valid and invalid pairs of inputs             *)

\* the POST data: in each post but the last, one match has a negative, a non-numeric or
\* an empty input and the other match a valid pair
MixedTipPosts ==
    { (1 :> TipPost(<<"-", "1">>, <<"0">>)) @@ (2 :> TipPost(<<"2">>, <<"1">>)),
      (1 :> TipPost(<<"1">>, <<"0">>)) @@ (2 :> TipPost(<<"x">>, <<"2">>)),
      (1 :> TipPost(Empty, <<"1">>)) @@ (2 :> TipPost(<<"0">>, <<"+", "0">>)),
      (1 :> TipPost(<<"2">>, <<"2">>)) @@ (2 :> TipPost(<<"1">>, <<" ">>)),
      (1 :> TipPost(<<"0">>, <<"0">>)) @@ (2 :> TipPost(<<"1", "0">>, <<"0">>)) }

NextMixedTips ==
    \/ Tick
    \/ Deliver
    \/ \E post \in MixedTipPosts, lock_time \in {t \in {now, now + 1} : t <= MaxTime} :
          Tippen(1, "POST", None, post, lock_time)

SpecMixedTips == InitTippen /\ [][NextMixedTips]_vars

-----------------------------------------------------------------------------
(* The matrix of one matchday while its matches start                      *)

\* the two matches of matchday 1; the one with the higher id starts first
MatrixMatches(first, second) ==
    (1 :> MatchRow(<<"b">>, 2, Some(1), second, second))
      @@ (2 :> MatchRow(<<"a">>, 1, Some(1), first, first))

\* the Prediction rows when tipped holds the (user, match) pairs with a prediction
MatrixPredictions(tipped) ==
    [k \in {<<p[1], 1, p[2]>> : p \in tipped} |->
        IF k[3] = 1 THEN PredictionRow(Some(1), Some(1))
        ELSE PredictionRow(Some(MaxGoals), Some(MaxGoals))]

InitMatrix ==
    /\ now = 0
    /\ tournament = TournamentRow(None, Empty, Empty, Empty, Empty, Empty)
    /\ \E first \in {None, Some(1)}, second \in {None, Some(1)} :
          matches = MatrixMatches(first, second)
    /\ \E tipped \in SUBSET (Users \X {1, 2}) : predictions = MatrixPredictions(tipped)
    /\ bonus_predictions = << >>
    /\ memberships = {MembershipRow(u, u, 1) : u \in Users}
    /\ session = [u \in Users |-> Some(1)]
    /\ groups = {m.group : m \in memberships}
    /\ request = Idle
    /\ response = Idle

NextMatrix ==
    \/ Tick
    \/ Deliver
    \/ \E u \in Users, md \in {None, IntParam(1)} : Spieltag(u, "matches", md)
    \/ \E u \in Users : Tabelle(u, "mdpoints", None, None)

SpecMatrix == InitMatrix /\ [][NextMatrix]_vars

-----------------------------------------------------------------------------
(* The table of a season of five matchdays                                 *)

\* the matches of the season: two in matchday 1, one in each of matchdays 2..5, one
\* without a matchday; played holds the matches with a result
TableMatches(played) ==
    [id \in 1..7 |->
        MatchRow(<<"a">>, 0,
                 IF id = 7 THEN None ELSE IF id = 1 THEN Some(1) ELSE Some(id - 1),
                 IF id \in played THEN Some(1) ELSE None,
                 IF id \in played THEN Some(0) ELSE None)]

\* user 1 tips 1:0 on the odd and 0:1 on the even matches, user 2 the other way round
TablePrediction(u, id) ==
    IF (u + id) % 2 = 0 THEN PredictionRow(Some(1), Some(0))
    ELSE PredictionRow(Some(0), Some(1))

\* the Prediction rows when tipped holds the (user, match) pairs with a prediction
TablePredictions(tipped) ==
    [k \in {<<p[1], 1, p[2]>> : p \in tipped} |-> TablePrediction(k[1], k[3])]

InitTable ==
    /\ now = 0
    /\ \E start \in {None, Some(1)} :
          tournament = TournamentRow(start, Empty, <<"a">>, Empty, Empty, Empty)
    /\ \E played \in SUBSET {1, 2, 7} : matches = TableMatches(played \cup {3, 4, 6})
    /\ \E tipped \in SUBSET {<<1, 1>>, <<1, 7>>} :
          predictions = TablePredictions(
              tipped \cup {<<1, 2>>, <<2, 2>>, <<2, 3>>, <<1, 4>>, <<2, 4>>,
                           <<1, 5>>, <<1, 6>>, <<2, 6>>})
    /\ bonus_predictions = << BonusRow(1, 1, "meister", <<"A">>) >>
    /\ memberships = {MembershipRow(u, u, 1) : u \in Users}
    /\ session = [u \in Users |-> Some(1)]
    /\ groups = {m.group : m \in memberships}
    /\ request = Idle
    /\ response = Idle

NextTable ==
    \/ Tick
    \/ Deliver
    \/ \E u \in Users, view \in {"mdpoints", "ranks", "rankdiff"},
          from \in {None, IntParam(1), IntParam(7)}, count \in {None, IntParam(4)} :
          Tabelle(u, view, from, count)
    \/ \E u \in Users, md \in {None, IntParam(1)} : Spieltag(u, "matches", md)

SpecTable == InitTable /\ [][NextTable]_vars

-----------------------------------------------------------------------------
(* The ranks of a group of several players over two matchdays              *)

\* the group of the ranking has the players 1..MaxPlayers
MaxPlayers == 5

Players == 1..MaxPlayers

\* two matches in matchday 1, one in matchday 2 and one in matchday 3, each ending
\* 1:0 once its matchday is among the played ones
RankMatches(played) ==
    [id \in 1..4 |->
        MatchRow(<<"a">>, 0, IF id < 3 THEN Some(1) ELSE Some(id - 1),
                 IF (IF id < 3 THEN 1 ELSE id - 1) \in played THEN Some(1) ELSE None,
                 IF (IF id < 3 THEN 1 ELSE id - 1) \in played THEN Some(0) ELSE None)]

\* the tips a player can give on a match that ends 1:0: the result, the goal
\* difference, the tendency, the wrong tendency
Tips ==
    << PredictionRow(Some(1), Some(0)), PredictionRow(Some(2), Some(1)),
       PredictionRow(Some(2), Some(0)), PredictionRow(Some(0), Some(1)) >>

\* matchday 1: every player but the fifth tips the first match right and the second
\* one worse from player to player, and the fifth tips nothing; matchday 3: tips that
\* depend on the player; matchday 2: the tips drawn for the players
RankPredictions(second_tips) ==
    [k \in {<<u, 1, id>> : u \in Players \ {5}, id \in {1, 2, 4}} |->
        IF k[3] = 1 THEN Tips[1]
        ELSE IF k[3] = 2 THEN Tips[1 + ((k[1] - 1) % 4)]
        ELSE Tips[1 + (k[1] % 4)]]
    @@ [k \in {<<u, 1, 3>> : u \in Players} |-> second_tips[k[1]]]

InitRanks ==
    /\ now = 0
    /\ tournament = TournamentRow(None, Empty, Empty, Empty, Empty, Empty)
    /\ \E played \in SUBSET (1..3) : matches = RankMatches(played)
    /\ \E second_tips \in [Players -> {Tips[1], Tips[3], Tips[4]}] :
          predictions = RankPredictions(second_tips)
    /\ bonus_predictions = << >>
    /\ memberships = {MembershipRow(u, u, 1) : u \in Players}
    /\ session = [u \in Players |-> Some(1)]
    /\ groups = {m.group : m \in memberships}
    /\ request = Idle
    /\ response = Idle

NextRanks ==
    \/ Deliver
    \/ \E view \in {"ranks", "rankdiff"} : Tabelle(MaxPlayers, view, None, None)

SpecRanks == InitRanks /\ [][NextRanks]_vars

-----------------------------------------------------------------------------
(* The window of tabelle over tournaments of up to MaxMatchday matchdays    *)

\* the matchday values of a tournament are among 1..MaxMatchday
MaxMatchday == 6

\* one match per matchday of mds, a second one on the even matchdays, and match 0
\* without a matchday
PageMatches(mds) ==
    [id \in {0} \cup mds \cup {MaxMatchday + md : md \in {d \in mds : d % 2 = 0}} |->
        MatchRow(<<"a">>, 0,
                 IF id = 0 THEN None
                 ELSE IF id > MaxMatchday THEN Some(id - MaxMatchday) ELSE Some(id),
                 None, None)]

\* the values of ?from= and ?count=: absent, not an integer, or an integer
FromParams == {None, TextParam(<<"a">>)} \cup {IntParam(k) : k \in -1..(MaxMatchday + 1)}

CountParams ==
    {None, TextParam(<<"a">>), IntParam(3), IntParam(4), IntParam(5), IntParam(15),
     IntParam(16)}

InitPages ==
    /\ now = 0
    /\ tournament = TournamentRow(None, Empty, Empty, Empty, Empty, Empty)
    /\ \E mds \in SUBSET (1..MaxMatchday) : matches = PageMatches(mds)
    /\ predictions = NoRows
    /\ bonus_predictions = << >>
    /\ memberships = {MembershipRow(1, 1, 1)}
    /\ session = [u \in {1} |-> Some(1)]
    /\ groups = {m.group : m \in memberships}
    /\ request = Idle
    /\ response = Idle

NextPages ==
    \/ Deliver
    \/ \E from \in FromParams, count \in CountParams : Tabelle(1, "mdpoints", from, count)

SpecPages == InitPages /\ [][NextPages]_vars

-----------------------------------------------------------------------------
(* A view served twice on the same snapshot, for users of two groups        *)

\* user 1 is in groups 1 and 2, user 2 is in group 2 or in no group
RepeatMemberships(second_joined) ==
    {MembershipRow(2, 1, 1), MembershipRow(3, 1, 2)}
    \cup (IF second_joined THEN {MembershipRow(1, 2, 2)} ELSE {})

\* the tips of the two groups on match 1 differ, so the tables of the groups differ
RepeatPredictions ==
    (<<1, 1, 1>> :> PredictionRow(Some(1), Some(0)))
    @@ (<<1, 2, 1>> :> PredictionRow(Some(0), Some(1)))
    @@ (<<2, 2, 1>> :> PredictionRow(Some(2), Some(1)))
    @@ (<<1, 1, 2>> :> PredictionRow(Some(1), Some(1)))

\* the bonus rows of user 1 in group 1, in either order of storage, and of user 2
RepeatBonus(swapped) ==
    (IF swapped
     THEN << BonusRow(1, 1, "relegation2", <<"b">>), BonusRow(1, 1, "relegation1", <<"a">>) >>
     ELSE << BonusRow(1, 1, "relegation1", <<"a">>), BonusRow(1, 1, "relegation2", <<"b">>) >>)
    \o << BonusRow(2, 2, "meister", <<"A">>) >>

InitRepeat ==
    /\ now = 0
    /\ tournament = TournamentRow(Some(1), Empty, <<"a">>, Empty, Empty, <<"a", ",", " ", "B">>)
    /\ matches = (1 :> MatchRow(<<"a">>, 0, Some(1), Some(1), Some(0)))
                   @@ (2 :> MatchRow(<<"b">>, 2, Some(2), None, None))
    /\ predictions = RepeatPredictions
    /\ \E swapped \in BOOLEAN : bonus_predictions = RepeatBonus(swapped)
    /\ \E second_joined \in BOOLEAN : memberships = RepeatMemberships(second_joined)
    /\ session \in [Users -> {None, Some(1), Some(2), Some(3)}]
    /\ groups = {m.group : m \in memberships}
    /\ request = Idle
    /\ response = Idle

\* the request in flight is served a second time: same user, same parameters, same
\* now, the database as the first run left it, the session as the first run left it
Again ==
    /\ request # Idle
    /\ "again" \notin DOMAIN request
    /\ request' = request @@ [again |-> TRUE]
    /\ session' = _require_active_membership(memberships, session, request.user).session
    /\ response' =
          [first  |-> response,
           second |-> IF _require_active_membership(memberships, session, request.user).membership
                            = None
                      THEN RedirectJoinGroup
                      ELSE IF request.op = "tabelle"
                      THEN tabelle_context(DB,
                               _require_active_membership(memberships, session,
                                                          request.user).membership.group,
                               request)
                      ELSE spieltag_context(DB,
                               _require_active_membership(memberships, session,
                                                          request.user).membership.group,
                               request)]
    /\ UNCHANGED <<now, tournament, matches, predictions, bonus_predictions, memberships,
                   groups>>

NextRepeat ==
    \/ Tick
    \/ Deliver
    \/ Again
    \/ \E u \in Users, tab \in {"matches", "bonus"} : Spieltag(u, tab, None)
    \/ \E u \in Users, view \in {"mdpoints", "ranks"} : Tabelle(u, view, None, None)

SpecRepeat == InitRepeat /\ [][NextRepeat]_vars

-----------------------------------------------------------------------------
(* The matchday spieltag selects, over tournaments of up to two matches    *)

\* a match is absent, or has a kickoff and a matchday that may be NULL
MatchChoices ==
    {None} \cup {Some(MatchRow(<<"a">>, k, md, None, None)) :
                    k \in 0..MaxTime, md \in {None, Some(1), Some(2), Some(3)}}

\* the Match table when match id is choice[id], absent matches left out
ChosenMatches(choice) ==
    [id \in {i \in DOMAIN choice : choice[i] # None} |-> Get(choice[id])]

\* the values of ?md=: absent, not an integer, or an integer
MdParams == {None, TextParam(<<"a">>)} \cup {IntParam(k) : k \in 1..3}

InitMatchday ==
    /\ now = 0
    /\ tournament = TournamentRow(None, Empty, Empty, Empty, Empty, Empty)
    /\ \E choice \in [1..2 -> MatchChoices] : matches = ChosenMatches(choice)
    /\ predictions = NoRows
    /\ bonus_predictions = << >>
    /\ memberships = {MembershipRow(1, 1, 1)}
    /\ session = [u \in {1} |-> Some(1)]
    /\ groups = {m.group : m \in memberships}
    /\ request = Idle
    /\ response = Idle

NextMatchday ==
    \/ Tick
    \/ Deliver
    \/ \E md \in MdParams : Spieltag(1, "matches", md)

SpecMatchday == InitMatchday /\ [][NextMatchday]_vars

-----------------------------------------------------------------------------
(* Joining, creating and selecting groups, and memberships being removed    *)

\* the Group table holds at most MaxGroups groups
MaxGroups == 3

\* the ids of GroupMembership rows stay within 1..MaxMembershipId
MaxMembershipId == 5

\* the id the next GroupMembership row gets
next_membership_id(mships) == 1 + Max({0} \cup {r.id : r \in mships})

\* GroupMembership.objects.get_or_create(user=request.user, group=group)
get_or_create_membership(mships, u, g) ==
    IF \E r \in mships : r.user = u /\ r.group = g THEN mships
    ELSE mships \cup {MembershipRow(next_membership_id(mships), u, g)}

\* join_group; code is the number of the group whose join code was posted
join_group(mships, grps, sess, u, method, code) ==
    IF method = "POST"
    THEN IF code \notin grps
         THEN [memberships |-> mships, session |-> sess,
               response |-> [view |-> "join", error |-> "Code nicht gefunden."]]
         ELSE [memberships |-> get_or_create_membership(mships, u, code),
               session |-> [sess EXCEPT ![u] = Some(code)],
               response |-> [redirect |-> "tippen"]]
    ELSE [memberships |-> mships, session |-> sess,
          response |-> [view |-> "join",
                        user_groups |-> {r.group : r \in {q \in mships : q.user = u}},
                        active_group_id |-> sess[u]]]

\* create_group; created is false when the form is invalid or the join code collides
create_group(mships, grps, sess, u, created) ==
    IF created
    THEN [groups |-> grps \cup {1 + Max({0} \cup grps)},
          memberships |->
              mships \cup {MembershipRow(next_membership_id(mships), u, 1 + Max({0} \cup grps))},
          session |-> [sess EXCEPT ![u] = Some(1 + Max({0} \cup grps))],
          response |-> [redirect |-> "tippen"]]
    ELSE [groups |-> grps, memberships |-> mships, session |-> sess,
          response |-> [view |-> "create_group"]]

\* set_active_group
set_active_group(mships, sess, u, group_id) ==
    IF first_membership({r \in mships : r.user = u /\ r.group = group_id}) = None
    THEN [session |-> sess, response |-> [redirect |-> "referer", level |-> "error"]]
    ELSE [session |-> [sess EXCEPT ![u] = Some(group_id)],
          response |-> [redirect |-> "referer", level |-> "success"]]

\* user 2 is in group 1 and stays there; user 1 starts without a group
InitGroups ==
    /\ now = 0
    /\ tournament = TournamentRow(None, Empty, Empty, Empty, Empty, Empty)
    /\ matches = NoRows
    /\ predictions = NoRows
    /\ bonus_predictions = << >>
    /\ memberships = {MembershipRow(1, 2, 1)}
    /\ groups = {1, 2}
    /\ session \in [{1, 2} -> {None, Some(1)}]
    /\ request = Idle
    /\ response = Idle

\* GET or POST join_group by user u
JoinGroup(u, method, code) ==
    LET out == join_group(memberships, groups, session, u, method, code)
    IN  /\ request = Idle
        /\ next_membership_id(memberships) <= MaxMembershipId
        /\ request' = [op |-> "join_group", user |-> u, method |-> method, code |-> code]
        /\ memberships' = out.memberships
        /\ session' = out.session
        /\ response' = out.response
        /\ UNCHANGED <<now, tournament, matches, predictions, bonus_predictions, groups>>

\* POST create_group by user u
CreateGroup(u, created) ==
    LET out == create_group(memberships, groups, session, u, created)
    IN  /\ request = Idle
        /\ Cardinality(groups) < MaxGroups
        /\ next_membership_id(memberships) <= MaxMembershipId
        /\ request' = [op |-> "create_group", user |-> u, created |-> created]
        /\ groups' = out.groups
        /\ memberships' = out.memberships
        /\ session' = out.session
        /\ response' = out.response
        /\ UNCHANGED <<now, tournament, matches, predictions, bonus_predictions>>

\* POST set_active_group by user u
SetActiveGroup(u, group_id) ==
    LET out == set_active_group(memberships, session, u, group_id)
    IN  /\ request = Idle
        /\ request' = [op |-> "set_active_group", user |-> u, group_id |-> group_id]
        /\ session' = out.session
        /\ response' = out.response
        /\ UNCHANGED <<now, tournament, matches, predictions, bonus_predictions,
                       memberships, groups>>

\* a GroupMembership row of user 1 is deleted in the admin, between two requests
RemoveMembership(row) ==
    /\ request = Idle
    /\ row \in memberships
    /\ row.user = 1
    /\ memberships' = memberships \ {row}
    /\ UNCHANGED <<now, tournament, matches, predictions, bonus_predictions, groups,
                   session, request, response>>

NextGroups ==
    \/ Deliver
    \/ \E method \in {"GET", "POST"}, code \in 1..(MaxGroups + 1) : JoinGroup(1, method, code)
    \/ \E created \in BOOLEAN : CreateGroup(1, created)
    \/ \E group_id \in 1..MaxGroups : SetActiveGroup(1, group_id)
    \/ \E row \in memberships : RemoveMembership(row)
    \/ \E u \in {1, 2} : Tabelle(u, "mdpoints", None, None)
    \/ Spieltag(1, "matches", None)

SpecGroups == InitGroups /\ [][NextGroups]_vars

\* the match and the prediction the last points_for_prediction call was given
ScoredMatch == matches[request.match]

ScoredPred == RowOrNone(predictions, <<request.user, 1, request.match>>)

PointsCalled == request # Idle /\ request.op = "points_for_prediction"

\* the call was given a result with both scores and a prediction with both values
FullyScored ==
    /\ PointsCalled
    /\ ScoredPred # None
    /\ ScoredMatch.home_score # None /\ ScoredMatch.away_score # None
    /\ ScoredPred.pred_home # None /\ ScoredPred.pred_away # None

Sign(n) == IF n > 0 THEN 1 ELSE IF n < 0 THEN 0 - 1 ELSE 0

SwapMatch(m) == [m EXCEPT !.home_score = m.away_score, !.away_score = m.home_score]

SwapPred(q) == [q EXCEPT !.pred_home = q.pred_away, !.pred_away = q.pred_home]

\* C2: the score of prediction (ph, pa) against result (h, a) equals the score of
\* prediction (pa, ph) against result (a, h).
C2_SwapSymmetry ==
    FullyScored =>
        response = points_for_prediction_call(SwapMatch(ScoredMatch), SwapPred(ScoredPred))

\* a tendency hit on an away win: swapped, it is a tendency hit on a home win
C2_Witness ==
    /\ FullyScored
    /\ response = Return(2)
    /\ Get(ScoredPred.pred_home) < Get(ScoredPred.pred_away)

\* C3: points_for_prediction returns 0, and does not raise, when the prediction is
\* absent, or a score of the match is null, or a value of the prediction is null.
C3_MissingDataScoresZero ==
    (/\ PointsCalled
     /\ \/ ScoredPred = None
        \/ ScoredMatch.home_score = None
        \/ ScoredMatch.away_score = None
        \/ ScoredPred.pred_home = None
        \/ ScoredPred.pred_away = None)
    => response = Return(0)

\* a prediction with exactly one value set, scored against a full result
C3_Witness ==
    /\ PointsCalled
    /\ ScoredPred # None
    /\ ScoredMatch.home_score # None /\ ScoredMatch.away_score # None
    /\ (ScoredPred.pred_home = None) # (ScoredPred.pred_away = None)
    /\ response = Return(0)

-----------------------------------------------------------------------------
(* Claims about bonus_points_for_user                                      *)

BonusCalled == request # Idle /\ request.op = "bonus_points_for_user"

\* the rows the call was given
CalledRows == bonus_by_user(bonus_predictions, request.user)

\* trimmed and lower-cased text, stated on positions instead of computed by a loop
IsBlank(s) == \A i \in 1..Len(s) : s[i] = " "

Core(s) ==
    IF IsBlank(s) THEN Empty
    ELSE LET i == CHOOSE i \in 1..Len(s) : s[i] # " " /\ \A k \in 1..(i - 1) : s[k] = " "
             j == CHOOSE j \in 1..Len(s) : s[j] # " " /\ \A k \in (j + 1)..Len(s) : s[k] = " "
         IN  SubSeq(s, i, j)

Small == [A |-> "a", B |-> "b", C |-> "c"]

Canon(s) ==
    LET c == Core(s)
    IN  [i \in 1..Len(c) |-> IF c[i] \in DOMAIN Small THEN Small[c[i]] ELSE c[i]]

\* the comma-separated members of s: the maximal comma-free stretches, normalized
Members(s) ==
    {Canon(SubSeq(s, i, j)) :
        <<i, j>> \in {ij \in (1..(Len(s) + 1)) \X (0..Len(s)) :
                        /\ ij[1] <= ij[2] + 1
                        /\ \A k \in ij[1]..ij[2] : s[k] # ","
                        /\ (ij[1] = 1 \/ s[ij[1] - 1] = ",")
                        /\ (ij[2] = Len(s) \/ s[ij[2] + 1] = ",")}} \ {Empty}

\* the tournament field a bonus type is scored against
AuthoritativeField(t, btype) ==
    CASE btype = "herbstmeister" -> t.autumn_champion
      [] btype = "meister"       -> t.champion
      [] btype = "trainer_first" -> t.first_coach_sacked
      [] btype = "topscorer"     -> t.top_scorer

SingleTypes == {"herbstmeister", "meister", "trainer_first", "topscorer"}

RelegationTypes == {"relegation1", "relegation2"}

RowsOfTypes(rows, types) == SelectSeq(rows, LAMBDA bp : bp.bonus_type \in types)

\* the single-value types whose pick is right
SingleHits(t, rows) ==
    {bp.bonus_type : bp \in {r \in Range(rows) :
        /\ r.bonus_type \in SingleTypes
        /\ Canon(r.value) # Empty
        /\ Canon(r.value) = Canon(AuthoritativeField(t, r.bonus_type))}}

\* the distinct relegated teams among the relegation picks
RelegationHits(t, rows) ==
    {Canon(r.value) : r \in {r \in Range(rows) : r.bonus_type \in RelegationTypes}}
        \cap Members(t.relegated_teams)

\* C4: the same normalized value in relegation1 and relegation2 is credited once:
\* when both slots name the same relegated team, the relegation part of the result
\* (the result less what the other picks score) is 5, in either order of the rows.
C4_RelegationCountedOnce ==
    (/\ BonusCalled
     /\ \E r1, r2 \in Range(CalledRows) :
           /\ r1.bonus_type = "relegation1" /\ r2.bonus_type = "relegation2"
           /\ Canon(r1.value) = Canon(r2.value)
           /\ Canon(r1.value) \in Members(tournament.relegated_teams))
    => response.ret
         = bonus_points_for_user(tournament, RowsOfTypes(CalledRows, SingleTypes)) + 5

\* relegation2 stored before relegation1, the same relegated team written two ways
C4_Witness ==
    /\ BonusCalled
    /\ Len(CalledRows) >= 2
    /\ CalledRows[1] = BonusRow(1, 1, "relegation2", <<" ", "A">>)
    /\ CalledRows[2] = BonusRow(1, 1, "relegation1", <<"a">>)
    /\ tournament.relegated_teams = <<"A", ",", " ", "b">>
    /\ response.ret >= 5

\* C5: the result is 5 for each herbstmeister, meister, trainer_first or topscorer
\* pick whose trimmed, lower-cased value is non-empty and equals the trimmed,
\* lower-cased tournament field, plus 5 for each distinct normalized relegation pick
\* that is a member of the normalized relegated_teams list, and nothing else.
C5_BonusSum ==
    BonusCalled =>
        response = Return(5 * Cardinality(SingleHits(tournament, CalledRows))
                          + 5 * Cardinality(RelegationHits(tournament, CalledRows)))

\* relegated_teams "A, b" with the picks relegation1 = "a", relegation2 = "b" gives 10
C5_Witness ==
    /\ BonusCalled
    /\ tournament.relegated_teams = <<"A", ",", " ", "b">>
    /\ CalledRows = << BonusRow(1, 1, "relegation1", <<"a">>), BonusRow(1, 1, "relegation2", <<"b">>) >>
    /\ response = Return(10)

\* C6: an empty or blank tournament outcome awards nothing: a pick of a type whose
\* field is blank, and the relegation picks when relegated_teams has no member, add 0
\* to the result, whatever the guess.
C6_EmptyOutcomeAwardsNothing ==
    BonusCalled =>
        /\ \A btype \in SingleTypes :
              IsBlank(AuthoritativeField(tournament, btype)) =>
                 response.ret = bonus_points_for_user(tournament,
                                   RowsOfTypes(CalledRows, Range(BONUS_TYPES) \ {btype}))
        /\ Members(tournament.relegated_teams) = {} =>
              response.ret = bonus_points_for_user(tournament,
                                RowsOfTypes(CalledRows, SingleTypes))

\* a whitespace-only champion field, a meister pick and a relegation pick, no
\* relegated team entered
C6_Witness ==
    /\ BonusCalled
    /\ tournament.champion = <<" ">>
    /\ tournament.relegated_teams = <<" ", ",", " ">>
    /\ \E r \in Range(CalledRows) : r.bonus_type = "meister" /\ r.value = <<"a">>
    /\ \E r \in Range(CalledRows) : r.bonus_type = "relegation1" /\ r.value = <<"a">>

\* C7: for rows with at most one pick per bonus type, the result is a multiple of 5
\* between 0 and 30.
C7_BonusRange ==
    BonusCalled => response.ret \in {5 * k : k \in 0..6}

\* all six picks right
C7_Witness == BonusCalled /\ Len(CalledRows) = 6 /\ response = Return(30)

-----------------------------------------------------------------------------
(* Claims about the bonus reveal in spieltag and tabelle                   *)

SpieltagRendered ==
    request # Idle /\ request.op = "spieltag" /\ response # RedirectJoinGroup

TabelleRendered ==
    request # Idle /\ request.op = "tabelle" /\ response # RedirectJoinGroup

\* C8: in tabelle and in spieltag, bonus_reveal is true iff season_start is set and
\* the time of the request is >= season_start: true at the instant now = season_start,
\* false at every time when season_start is unset.
C8_BonusRevealGate ==
    (SpieltagRendered \/ TabelleRendered) =>
        /\ response.bonus_reveal
              <=> (/\ tournament.season_start # None
                   /\ request.now >= Get(tournament.season_start))
        /\ tournament.season_start = Some(request.now) => response.bonus_reveal
        /\ tournament.season_start = None => ~response.bonus_reveal

\* tabelle asked at the instant of season_start, after the clock has moved
C8_Witness ==
    /\ TabelleRendered
    /\ request.now > 0
    /\ tournament.season_start = Some(request.now)
    /\ response.bonus_reveal

\* the points of user u from the predictions on matches, no bonus in it
MatchPointsOf(u) ==
    LET ids == Ascending(DOMAIN matches)
    IN  Sum([i \in 1..Len(ids) |->
                points_for_prediction(matches[ids[i]],
                                      RowOrNone(predictions, <<u, 1, ids[i]>>))])

\* what the stored picks of user u are worth
StoredBonusOf(u) ==
    bonus_points_for_user(tournament,
        SelectSeq(bonus_predictions, LAMBDA bp : bp.user = u /\ bp.group = 1))

\* C9: while bonus_reveal is false no bonus points enter a total: in tabelle every
\* row's total is the user's match points and its bonus is none; in spieltag every
\* row has bonus_points 0 and total_with_bonus = total_points, and bonus_rows is empty.
C9_NoBonusBeforeReveal ==
    /\ (TabelleRendered /\ ~response.bonus_reveal) =>
          \A i \in 1..Len(response.table_rows) :
              /\ response.table_rows[i].total = MatchPointsOf(response.table_rows[i].user)
              /\ response.table_rows[i].bonus = None
    /\ (SpieltagRendered /\ ~response.bonus_reveal) =>
          /\ \A i \in 1..Len(response.table_rows) :
                /\ response.table_rows[i].bonus_points = 0
                /\ response.table_rows[i].total_with_bonus
                      = response.table_rows[i].total_points
          /\ response.bonus_rows = << >>

\* tabelle rendered before a season_start that is set, with a user whose stored picks
\* are right and whose match points are not zero
C9_Witness ==
    /\ TabelleRendered
    /\ tournament.season_start # None
    /\ ~response.bonus_reveal
    /\ \E i \in 1..Len(response.table_rows) :
          /\ StoredBonusOf(response.table_rows[i].user) > 0
          /\ response.table_rows[i].total > 0

\* the picks of user u in the BonusPrediction table, as a choice of InitViews
StoredChoice(u) ==
    LET rows == SelectSeq(bonus_predictions, LAMBDA bp : bp.user = u)
    IN  [i \in 1..Len(rows) |-> [bonus_type |-> rows[i].bonus_type, value |-> rows[i].value]]

\* the database with the bonus picks of one user replaced
WithPicksOf(other, picks) ==
    Database(tournament, matches, predictions,
             BonusTable([u \in Users |-> IF u = other THEN picks ELSE StoredChoice(u)], 1),
             memberships)

\* C10: before the bonus reveal, what spieltag and tabelle hand to a viewer does not
\* depend on the bonus predictions of the other users: with those replaced, the
\* rendered context (bonus_rows, my_bonus, the table rows, their totals and their
\* order) is the same.
C10_OthersPicksHiddenBeforeReveal ==
    /\ (SpieltagRendered /\ ~response.bonus_reveal) =>
          \A other \in Users \ {request.user}, picks \in UserBonusChoices :
              spieltag_context(WithPicksOf(other, picks), 1, request) = response
    /\ (TabelleRendered /\ ~response.bonus_reveal) =>
          \A other \in Users \ {request.user}, picks \in UserBonusChoices :
              tabelle_context(WithPicksOf(other, picks), 1, request) = response

\* the bonus tab of spieltag before reveal, the viewer and another user both with
\* stored picks
C10_Witness ==
    /\ SpieltagRendered
    /\ response.tab = "bonus"
    /\ ~response.bonus_reveal
    /\ response.my_bonus # Some(<< >>)
    /\ \E other \in Users \ {request.user} : StoredBonusOf(other) > 0

-----------------------------------------------------------------------------
(* Claims about the locks of bonus_tips and tippen                         *)

\* bonus_reveal at time t
RevealedAt(t) == bonus_reveal_of(tournament.season_start, t)

TipKey(u, id) == <<u, 1, id>>

\* the POST being answered is by a member and reached the loop over the matches
TipsPosted ==
    /\ request # Idle /\ request.op = "tippen" /\ request.method = "POST"
    /\ response # RedirectJoinGroup

\* C12: a tippen POST never creates or changes the Prediction of a match whose kickoff
\* <= the time of that POST, with or without a result, so no stored prediction changes
\* from kickoff on; and the POST still saves its valid inputs for the matches of the
\* matchday that have not started.
C12_LockedFromKickoff ==
    /\ [][\A k \in DOMAIN predictions' :
            (k \notin DOMAIN predictions \/ predictions'[k] # predictions[k])
                => matches[k[3]].kickoff > now']_vars
    /\ [](TipsPosted =>
            \A id \in DOMAIN matches :
                (matches[id].kickoff > request.lock_time
                    /\ tip_values(request.post, id) # None)
                => /\ TipKey(request.user, id) \in DOMAIN predictions
                   /\ predictions[TipKey(request.user, id)] =
                        PredictionRow(Some(Get(tip_values(request.post, id))[1]),
                                      Some(Get(tip_values(request.post, id))[2])))

\* one POST with valid inputs for both matches, made when the first has started and
\* has a result: the first is skipped as locked, the second is saved
C12_Witness ==
    /\ TipsPosted
    /\ matches[1].kickoff <= request.lock_time /\ matches[2].kickoff > request.lock_time
    /\ matches[1].home_score # None
    /\ tip_values(request.post, 1) # None /\ tip_values(request.post, 2) # None
    /\ TipKey(request.user, 1) \notin DOMAIN predictions
    /\ TipKey(request.user, 2) \in DOMAIN predictions
    /\ response.message = [level |-> "success", saved |-> 1, skipped_locked |-> 1]

-----------------------------------------------------------------------------
(* Claims about the cells of spieltag                                      *)

\* the points of the revealed cells of a row
RevealedPoints(cells) ==
    Sum([i \in 1..Len(cells) |-> IF cells[i].reveal THEN Get(cells[i].points) ELSE 0])

\* C13: in spieltag there is a row for every user of the group and a cell for every
\* match of the matchday; the cell's reveal flag equals (kickoff <= now), its points
\* are none when not revealed and points_for_prediction(match, prediction) when
\* revealed, and the row's total_points is the sum over the revealed cells only.
C13_CellRevealedWhenLocked ==
    (SpieltagRendered /\ response.matchday # None) =>
        /\ {response.table_rows[r].user : r \in 1..Len(response.table_rows)} = Users
        /\ {response.matches[i].match : i \in 1..Len(response.matches)}
              = {id \in DOMAIN matches : matches[id].matchday = response.matchday}
        /\ \A r \in 1..Len(response.table_rows) :
              LET row == response.table_rows[r]
              IN  /\ Len(row.cells) = Len(response.matches)
                  /\ row.total_points = RevealedPoints(row.cells)
                  /\ \A i \in 1..Len(row.cells) :
                        LET id   == response.matches[i].match
                            cell == row.cells[i]
                        IN  /\ cell.reveal <=> (matches[id].kickoff <= request.now)
                            /\ ~cell.reveal => cell.points = None
                            /\ cell.reveal =>
                                  cell.points = Some(points_for_prediction(matches[id],
                                      RowOrNone(predictions, <<row.user, 1, id>>)))

\* a row with one revealed cell that scored and one hidden cell whose prediction
\* would score: the total holds the revealed cell's points only
C13_Witness ==
    /\ SpieltagRendered /\ response.matchday # None
    /\ \E r \in 1..Len(response.table_rows) :
          LET row == response.table_rows[r]
          IN  /\ row.cells[1].reveal /\ Get(row.cells[1].points) > 0
              /\ ~row.cells[2].reveal /\ row.cells[2].pred # None
              /\ points_for_prediction(matches[1], row.cells[2].pred) > 0
              /\ row.total_points = Get(row.cells[1].points)

\* the values another prediction could hold
OtherValues == {PredictionRow(Some(h), Some(a)) : h, a \in {0, MaxGoals}}

\* the database with the values of one stored prediction replaced
WithPrediction(key, row) ==
    Database(tournament, matches, [predictions EXCEPT ![key] = row], bonus_predictions,
             memberships)

\* the stored predictions of users other than the viewer on matches of the rendered
\* matchday that have not started
HiddenKeys ==
    {k \in DOMAIN predictions :
        /\ k[1] # request.user
        /\ matches[k[3]].matchday = response.matchday
        /\ matches[k[3]].kickoff > request.now}

\* the cell of user u for match id in a rendered context
CellOf(ctx, u, id) ==
    LET r == CHOOSE r \in 1..Len(ctx.table_rows) : ctx.table_rows[r].user = u
        i == CHOOSE i \in 1..Len(ctx.matches) : ctx.matches[i].match = id
    IN  ctx.table_rows[r].cells[i]

\* a rendered context with the pred field of one cell blanked
WithoutPred(ctx, u, id) ==
    [f \in DOMAIN ctx |->
        IF f # "table_rows" THEN ctx[f]
        ELSE [r \in 1..Len(ctx.table_rows) |->
                IF ctx.table_rows[r].user # u THEN ctx.table_rows[r]
                ELSE [ctx.table_rows[r] EXCEPT !.cells =
                        [i \in 1..Len(ctx.matches) |->
                            IF ctx.matches[i].match # id THEN ctx.table_rows[r].cells[i]
                            ELSE [ctx.table_rows[r].cells[i] EXCEPT !.pred = None]]]]]

\* C14 as stated: for a match that has not started, the cell of a user other than the
\* viewer is the same whatever the values of that user's prediction.
C14_HiddenCellIndependentOfPrediction ==
    (SpieltagRendered /\ response.matchday # None) =>
        \A k \in HiddenKeys, row \in OtherValues :
            CellOf(spieltag_context(WithPrediction(k, row), 1, request), k[1], k[3])
                = CellOf(response, k[1], k[3])

\* C14, amended: for a match that has not started, the cell of a user other than the
\* viewer has reveal false and points none whatever the values of that user's
\* prediction, and nothing else of the rendered context depends on them; the cell's
\* pred field is the stored prediction itself.
C14_HiddenCellKeepsOnlyPred ==
    (SpieltagRendered /\ response.matchday # None) =>
        \A k \in HiddenKeys :
            /\ CellOf(response, k[1], k[3])
                  = [reveal |-> FALSE, pred |-> predictions[k], points |-> None]
            /\ \A row \in OtherValues :
                  WithoutPred(spieltag_context(WithPrediction(k, row), 1, request), k[1], k[3])
                      = WithoutPred(response, k[1], k[3])

\* the viewer sees the row of another user who has tipped a match that has not
\* started, and whose tip would score
C14_Witness ==
    /\ SpieltagRendered /\ response.matchday # None
    /\ \E k \in HiddenKeys :
          /\ points_for_prediction(matches[k[3]], predictions[k]) > 0
          /\ CellOf(response, k[1], k[3]).pred = predictions[k]

-----------------------------------------------------------------------------
(* Claims about the columns of tabelle                                     *)

\* the matches of matchday md
MatchesOf(md) == {id \in DOMAIN matches : matches[id].matchday = Some(md)}

\* some match of matchday md has a result
AnyResult(md) ==
    \E id \in MatchesOf(md) : matches[id].home_score # None /\ matches[id].away_score # None

\* tabelle rendered the per-matchday points
PointsRendered == TabelleRendered /\ response.view = "mdpoints"

\* C15: for every shown matchday the per-matchday points are none for every user when
\* no match of the matchday has a result, even if predictions exist, and a number
\* (possibly 0) for every user as soon as one match of the matchday has a result.
C15_PointsNoneUntilFirstResult ==
    PointsRendered =>
        /\ {response.table_rows[r].user : r \in 1..Len(response.table_rows)} = Users
        /\ \A r \in 1..Len(response.table_rows), i \in 1..Len(response.shown_matchdays) :
              LET cell == response.table_rows[r].cells[i]
              IN  IF AnyResult(response.shown_matchdays[i])
                  THEN cell # None /\ Get(cell) \in Nat
                  ELSE cell = None

\* a matchday without a result on which a user has tipped, and a matchday with a
\* result on which a user has not tipped and gets 0
C15_Witness ==
    /\ PointsRendered
    /\ \E r \in 1..Len(response.table_rows), i, j \in 1..Len(response.shown_matchdays) :
          LET u == response.table_rows[r].user
          IN  /\ ~AnyResult(response.shown_matchdays[i])
              /\ \E id \in MatchesOf(response.shown_matchdays[i]) :
                    <<u, 1, id>> \in DOMAIN predictions
              /\ AnyResult(response.shown_matchdays[j])
              /\ \A id \in MatchesOf(response.shown_matchdays[j]) :
                    <<u, 1, id>> \notin DOMAIN predictions
              /\ response.table_rows[r].cells[j] = Some(0)

\* the points of user u over all matches of matchday md
PointsOver(u, md) ==
    LET ids == Ascending(MatchesOf(md))
    IN  Sum([i \in 1..Len(ids) |->
                points_for_prediction(matches[ids[i]], RowOrNone(predictions, <<u, 1, ids[i]>>))])

\* C16: when a matchday has a match with a result, a user's per-matchday points are the
\* sum of points_for_prediction over all matches of the matchday; matches without a
\* result and matches the user has not tipped add 0.
C16_PointsSumOverMatchday ==
    PointsRendered =>
        \A r \in 1..Len(response.table_rows), i \in 1..Len(response.shown_matchdays) :
            AnyResult(response.shown_matchdays[i]) =>
                response.table_rows[r].cells[i]
                    = Some(PointsOver(response.table_rows[r].user, response.shown_matchdays[i]))

\* matchday 1 with its two matches tipped by a user, the first without a result: the
\* points are those of the second match; and a user who has not tipped the first
\* match scores on the second when both have a result
C16_Witness ==
    /\ PointsRendered
    /\ response.shown_matchdays[1] = 1
    /\ matches[2].home_score # None
    /\ \E r \in 1..Len(response.table_rows) :
          LET u == response.table_rows[r].user
          IN  \/ /\ matches[1].home_score = None
                 /\ <<u, 1, 1>> \in DOMAIN predictions /\ <<u, 1, 2>> \in DOMAIN predictions
                 /\ response.table_rows[r].cells[1]
                       = Some(points_for_prediction(matches[2], predictions[<<u, 1, 2>>]))
              \/ /\ matches[1].home_score # None
                 /\ <<u, 1, 1>> \notin DOMAIN predictions
                 /\ Get(response.table_rows[r].cells[1]) > 0

\* the users of the group
GroupMembers == {m.user : m \in memberships}

\* 1 + the number of users of the group with strictly more points on matchday md, or
\* None when no match of md has a result
RankOf(u, md) ==
    IF AnyResult(md)
    THEN Some(1 + Cardinality({v \in GroupMembers : PointsOver(v, md) > PointsOver(u, md)}))
    ELSE None

\* tabelle rendered the per-matchday ranks
RanksRendered == TabelleRendered /\ response.view = "ranks"

\* C17: for every shown matchday with a result each user's rank is 1 plus the number
\* of users of the group with strictly more points on that matchday, so equal points
\* share a rank and the next point value takes its position in the sorted order; for
\* a matchday without a result every user's rank is none.
C17_CompetitionRanks ==
    RanksRendered =>
        /\ {response.table_rows[r].user : r \in 1..Len(response.table_rows)} = GroupMembers
        /\ \A r \in 1..Len(response.table_rows), i \in 1..Len(response.shown_matchdays) :
              response.table_rows[r].cells[i]
                  = RankOf(response.table_rows[r].user, response.shown_matchdays[i])

\* the users of the rendered table with rank n in column i
Ranked(i, n) ==
    {r \in 1..Len(response.table_rows) : response.table_rows[r].cells[i] = Some(n)}

\* a matchday on which two of five users share the most points, one comes next and two
\* share the fewest: the ranks are 1, 1, 3, 4, 4
C17_Witness ==
    /\ RanksRendered
    /\ Len(response.table_rows) = 5
    /\ \E i \in 1..Len(response.shown_matchdays) :
          /\ Cardinality(Ranked(i, 1)) = 2
          /\ Cardinality(Ranked(i, 3)) = 1
          /\ Cardinality(Ranked(i, 4)) = 2

\* tabelle rendered the rank differences
RankdiffRendered == TabelleRendered /\ response.view = "rankdiff"

\* C18: for every user and every shown matchday but the first shown one, the rank
\* difference is none when the user's rank in that column or in the shown column just
\* before it is none, and the previous rank minus the current rank otherwise.
C18_RankDifference ==
    RankdiffRendered =>
        \A r \in 1..Len(response.table_rows), i \in 2..Len(response.shown_matchdays) :
            response.table_rows[r].cells[i]
                = IF \/ RankOf(response.table_rows[r].user, response.shown_matchdays[i]) = None
                     \/ RankOf(response.table_rows[r].user, response.shown_matchdays[i - 1]) = None
                  THEN None
                  ELSE Some(Get(RankOf(response.table_rows[r].user, response.shown_matchdays[i - 1]))
                            - Get(RankOf(response.table_rows[r].user, response.shown_matchdays[i])))

\* a user who was fifth on a matchday and is second on the next gets +3, while another
\* column of the same table has no difference because one of its sides has no result
C18_Witness ==
    /\ RankdiffRendered
    /\ \E r \in 1..Len(response.table_rows), i \in 2..Len(response.shown_matchdays) :
          /\ RankOf(response.table_rows[r].user, response.shown_matchdays[i - 1]) = Some(5)
          /\ RankOf(response.table_rows[r].user, response.shown_matchdays[i]) = Some(2)
          /\ response.table_rows[r].cells[i] = Some(3)
    /\ \E r \in 1..Len(response.table_rows), i \in 2..Len(response.shown_matchdays) :
          /\ RankOf(response.table_rows[r].user, response.shown_matchdays[i - 1]) # None
          /\ RankOf(response.table_rows[r].user, response.shown_matchdays[i]) = None
          /\ response.table_rows[r].cells[i] = None

\* C19: the rank difference in the first shown column is none for every user, whatever
\* the offset of the window, also when matchdays before the window have results.
C19_FirstColumnWithoutDifference ==
    (RankdiffRendered /\ response.shown_matchdays # << >>) =>
        \A r \in 1..Len(response.table_rows) : response.table_rows[r].cells[1] = None

\* the window starts after matchday 1; matchday 1 and the first shown matchday have
\* results and a user's ranks on the two differ
C19_Witness ==
    /\ RankdiffRendered
    /\ response.shown_matchdays # << >>
    /\ response.shown_matchdays[1] > 1
    /\ \E r \in 1..Len(response.table_rows) :
          /\ RankOf(response.table_rows[r].user, response.shown_matchdays[1] - 1) # None
          /\ RankOf(response.table_rows[r].user, response.shown_matchdays[1]) # None
          /\ RankOf(response.table_rows[r].user, response.shown_matchdays[1] - 1)
                # RankOf(response.table_rows[r].user, response.shown_matchdays[1])
          /\ response.table_rows[r].cells[1] = None

\* the matchdays of the tournament with a result, in ascending order
MatchdaysWithResult ==
    Ascending({Get(matches[id].matchday) :
                  id \in {j \in DOMAIN matches : matches[j].matchday # None /\ has_result(matches[j])}})

\* the bonus points of user u from the BonusPrediction rows of the group
BonusOver(u) ==
    bonus_points_for_user(tournament,
        SelectSeq(bonus_predictions, LAMBDA b : b.user = u /\ b.group = 1))

\* the sum over the matchdays with a result of the points of user u on the matchday,
\* plus the bonus points of u when the bonus is revealed
SeasonTotal(u, reveal) ==
    Sum([i \in 1..Len(MatchdaysWithResult) |-> PointsOver(u, MatchdaysWithResult[i])])
    + (IF reveal THEN BonusOver(u) ELSE 0)

\* C20: in tabelle each user's season total is the sum, over all matchdays of the
\* tournament that have results, of the user's per-matchday points, plus the user's
\* bonus points if bonus_reveal is true and nothing otherwise, whatever the window.
C20_TotalOverMatchdays ==
    TabelleRendered =>
        /\ response.bonus_reveal = bonus_reveal_of(tournament.season_start, now)
        /\ \A r \in 1..Len(response.table_rows) :
              response.table_rows[r].total
                  = SeasonTotal(response.table_rows[r].user, response.bonus_reveal)

\* the matches with a matchday
AssignedMatches == {id \in DOMAIN matches : matches[id].matchday # None}

\* the database without the matches that have no matchday and without the
\* predictions on them
WithoutUnassigned ==
    Database(tournament,
             [id \in AssignedMatches |-> matches[id]],
             [k \in {j \in DOMAIN predictions : j[3] \in AssignedMatches} |-> predictions[k]],
             bonus_predictions, memberships)

\* C21: a match whose matchday is null is excluded from every matchday-based view:
\* with or without such a match, its result and the predictions on it, tabelle
\* produces the same cells, ranks, deltas, totals and row order, and spieltag
\* produces the same.
C21_UnassignedMatchesChangeNothing ==
    /\ TabelleRendered => response = tabelle_context(WithoutUnassigned, response.group, request)
    /\ SpieltagRendered => response = spieltag_context(WithoutUnassigned, response.group, request)

\* C22: the rows tabelle returns are ordered by season total descending and, among
\* equal totals, by lower-cased username ascending: no row is followed by a row with a
\* larger total, or with the same total and a smaller lower-cased username.
C22_RowsByTotalThenName ==
    TabelleRendered =>
        \A r \in 1..Len(response.table_rows), q \in 1..Len(response.table_rows) :
            r < q =>
                /\ response.table_rows[q].total <= response.table_rows[r].total
                /\ response.table_rows[q].total = response.table_rows[r].total
                      => ~StrLess(Lower(username(response.table_rows[q].user)),
                                  Lower(username(response.table_rows[r].user)))

\* two users with the same total whose usernames compare the other way round before
\* lower-casing
C22_Witness ==
    /\ TabelleRendered
    /\ \E r \in 1..Len(response.table_rows) - 1 :
          /\ response.table_rows[r].total = response.table_rows[r + 1].total
          /\ StrLess(username(response.table_rows[r + 1].user),
                     username(response.table_rows[r].user))
          /\ StrLess(Lower(username(response.table_rows[r].user)),
                     Lower(username(response.table_rows[r + 1].user)))

\* the distinct matchday values of the tournament in ascending order
AllMatchdays ==
    Ascending({Get(matches[id].matchday) : id \in {j \in DOMAIN matches : matches[j].matchday # None}})

\* the integer a GET parameter was sent as, or otherwise when it is absent or no integer
Asked(param, otherwise) ==
    IF param # None /\ "int" \in DOMAIN param THEN param.int ELSE otherwise

\* the count of the request brought into 4..15
ClampedCount ==
    IF Asked(request.count, 8) < 4 THEN 4
    ELSE IF Asked(request.count, 8) > 15 THEN 15
    ELSE Asked(request.count, 8)

\* min(count, number of matchdays)
FullWindow ==
    IF ClampedCount < Len(AllMatchdays) THEN ClampedCount ELSE Len(AllMatchdays)

\* C23: out-of-range pagination parameters of tabelle are clamped, never rejected: a
\* count below 4 becomes 4 and above 15 becomes 15 (8 when it is no integer), a negative
\* offset becomes 0, and an offset beyond the matchdays gives the window of
\* min(count, number of matchdays) columns that ends at the last matchday.
C23_ParametersClamped ==
    (request # Idle /\ request.op = "tabelle") =>
        /\ TabelleRendered
        /\ response.count = ClampedCount
        /\ response.matchdays = AllMatchdays
        /\ Asked(request.from, 0) < 0
              => response.shown_matchdays = SubSeq(AllMatchdays, 1, FullWindow)
        /\ Asked(request.from, 0) >= Len(AllMatchdays)
              => response.shown_matchdays
                   = SubSeq(AllMatchdays, Len(AllMatchdays) - FullWindow + 1, Len(AllMatchdays))

\* an offset beyond the matchdays, more than four of them, with a count below 4: the
\* window is the last four matchdays
C23_Witness ==
    /\ TabelleRendered
    /\ Len(AllMatchdays) > 4
    /\ Asked(request.from, 0) >= Len(AllMatchdays)
    /\ Asked(request.count, 8) < 4
    /\ response.count = 4
    /\ Len(response.shown_matchdays) = 4
    /\ response.shown_matchdays[4] = AllMatchdays[Len(AllMatchdays)]

\* C24: whenever the tournament has a match with a matchday, the shown window of
\* tabelle is a non-empty contiguous slice of the ascending list of the distinct
\* non-null matchday values, of at most count columns, for every offset and count.
C24_WindowIsSlice ==
    (TabelleRendered /\ AllMatchdays # << >>) =>
        /\ response.shown_matchdays # << >>
        /\ Len(response.shown_matchdays) <= response.count
        /\ \E lo \in 1..Len(AllMatchdays) :
              /\ lo + Len(response.shown_matchdays) - 1 <= Len(AllMatchdays)
              /\ response.shown_matchdays
                    = SubSeq(AllMatchdays, lo, lo + Len(response.shown_matchdays) - 1)

\* matchday values with a gap and a matchday of two matches, the window in the middle
\* of the list
C24_Witness ==
    /\ TabelleRendered
    /\ Len(AllMatchdays) = 5
    /\ \E i \in 1..4 : AllMatchdays[i + 1] > AllMatchdays[i] + 1
    /\ MaxMatchday + 2 \in DOMAIN matches
    /\ Asked(request.from, 0) = 1
    /\ response.count = 4
    /\ response.shown_matchdays = SubSeq(AllMatchdays, 2, 5)

\* the window leaves out matchdays before its first column
HiddenBefore == response.shown_matchdays[1] # AllMatchdays[1]

\* the window leaves out matchdays after its last column
HiddenAfter ==
    response.shown_matchdays[Len(response.shown_matchdays)] # AllMatchdays[Len(AllMatchdays)]

\* a link is None or an index into the list of matchdays
ValidLink(link) == link = None \/ Get(link) \in 0..(Len(AllMatchdays) - 1)

\* C30: the pagination links of tabelle reach every matchday: prev_from is not None
\* when the window does not start at the first matchday, next_from is not None when it
\* does not end at the last, and every link that is not None is a valid index into the
\* list of matchdays.
C30_LinksReachEveryMatchday ==
    (TabelleRendered /\ AllMatchdays # << >>) =>
        /\ HiddenBefore => response.prev_from # None
        /\ HiddenAfter => response.next_from # None
        /\ ValidLink(response.prev_from)
        /\ ValidLink(response.next_from)

\* a view has been served twice
ServedTwice == request # Idle /\ "again" \in DOMAIN request

\* the step serves tabelle or spieltag
ServesView ==
    /\ request' # request
    /\ request' # Idle
    /\ request'.op \in {"tabelle", "spieltag"}

SpieltagTotal(u, md) ==
    LET rows == spieltag_context(DB, response.group,
                    [op |-> "spieltag", user |-> request.user, tab |-> "matches",
                     md |-> IntParam(md), now |-> request.now]).table_rows
    IN  rows[CHOOSE r \in 1..Len(rows) : rows[r].user = u].total_points

\* the per-matchday points tabelle computes for user u on matchday md
TabellePoints(u, md) == md_points(DB, response.group, u, md)

\* C26: the per-match view and the per-matchday view never drift: for every user, every
\* matchday and every now, whenever tabelle's per-matchday points of the user are a
\* number, they are the total_points spieltag computes for the same user and matchday
\* at the same now.
C26_ViewsNeverDrift ==
    /\ PointsRendered =>
          \A r \in 1..Len(response.table_rows), i \in 1..Len(response.shown_matchdays) :
              response.table_rows[r].cells[i] # None
                  => Get(response.table_rows[r].cells[i])
                        = SpieltagTotal(response.table_rows[r].user, response.shown_matchdays[i])
    /\ (SpieltagRendered /\ response.matchday # None) =>
          \A r \in 1..Len(response.table_rows) :
              TabellePoints(response.table_rows[r].user, Get(response.matchday)) # None
                  => Get(TabellePoints(response.table_rows[r].user, Get(response.matchday)))
                        = response.table_rows[r].total_points

\* a match has a result before its kickoff
ResultBeforeKickoff ==
    \E id \in DOMAIN matches : has_result(matches[id]) /\ matches[id].kickoff > now

\* the matches with a matchday whose kickoff is not before the time of the request
FutureMatches == {id \in AssignedMatches : matches[id].kickoff >= request.now}

\* ?md= is an integer and a match of the tournament has that matchday
MdParamExists ==
    /\ request.md # None
    /\ "int" \in DOMAIN request.md
    /\ \E id \in DOMAIN matches : matches[id].matchday = Some(request.md.int)

\* C27: _get_selected_matchday returns the ?md= value when it is an integer and the
\* tournament has a match with that matchday; otherwise the matchday of the earliest
\* match with kickoff >= now that has a matchday; otherwise the largest matchday; it
\* returns None exactly when no match has a matchday, and any other result is the
\* matchday of a match.
C27_SelectedMatchday ==
    SpieltagRendered =>
        /\ IF MdParamExists THEN response.matchday = Some(request.md.int)
           ELSE IF FutureMatches # {}
           THEN \E id \in FutureMatches :
                   /\ \A j \in FutureMatches : matches[id].kickoff <= matches[j].kickoff
                   /\ response.matchday = matches[id].matchday
           ELSE IF AssignedMatches # {}
           THEN /\ response.matchday # None
                /\ \E id \in AssignedMatches : response.matchday = matches[id].matchday
                /\ \A id \in AssignedMatches :
                      Get(matches[id].matchday) <= Get(response.matchday)
           ELSE response.matchday = None
        /\ response.matchday = None <=> AssignedMatches = {}
        /\ response.matchday # None
              => \E id \in DOMAIN matches : matches[id].matchday = response.matchday

\* the earliest match from now on has no matchday and a later one has: the later
\* one's matchday is selected, although ?md= names a matchday no match has
C27_Witness ==
    /\ SpieltagRendered
    /\ request.md # None
    /\ ~MdParamExists
    /\ \E id \in DOMAIN matches, j \in FutureMatches :
          /\ matches[id].matchday = None
          /\ request.now <= matches[id].kickoff
          /\ matches[id].kickoff < matches[j].kickoff
          /\ response.matchday = matches[j].matchday

\* a submitted input that is empty, not an integer, or negative
BadSide(text) ==
    \/ Strip(text) = Empty
    \/ int_of(Strip(text)) = None
    \/ Get(int_of(Strip(text))) < 0

\* the pair submitted for match id has a bad side
BadPair(post, id) ==
    BadSide(post_value(post, id, "home")) \/ BadSide(post_value(post, id, "away"))

\* the step answers a tippen POST of a member
PostsTips ==
    /\ request = Idle
    /\ request'.op = "tippen" /\ request'.method = "POST"
    /\ response' # RedirectJoinGroup

\* C29: every Prediction that tippen writes has pred_home and pred_away set to
\* non-negative integers; for a match whose submitted pair has an empty, non-integer or
\* negative side the POST leaves the stored prediction unchanged, and the other matches
\* of the same POST are processed independently: an open match with a valid pair is
\* saved with the submitted numbers.
C29_OnlyValidPairsWritten ==
    /\ [][\A k \in DOMAIN predictions' :
            (k \notin DOMAIN predictions \/ predictions'[k] # predictions[k])
                => /\ predictions'[k].pred_home # None /\ Get(predictions'[k].pred_home) >= 0
                   /\ predictions'[k].pred_away # None /\ Get(predictions'[k].pred_away) >= 0]_vars
    /\ [][PostsTips =>
            \A id \in DOMAIN matches :
                IF BadPair(request'.post, id)
                THEN RowOrNone(predictions', TipKey(request'.user, id))
                        = RowOrNone(predictions, TipKey(request'.user, id))
                ELSE matches[id].kickoff > request'.lock_time
                        => RowOrNone(predictions', TipKey(request'.user, id))
                             = PredictionRow(
                                  int_of(Strip(post_value(request'.post, id, "home"))),
                                  int_of(Strip(post_value(request'.post, id, "away"))))]_vars

\* a POST with a negative input for match 1 and a valid pair for match 2, made while
\* both are open and match 1 has a prediction: match 1 keeps it, match 2 is saved
C29_Witness ==
    /\ TipsPosted
    /\ request.lock_time = 0
    /\ int_of(post_value(request.post, 1, "home")) = Some(0 - 1)
    /\ TipKey(1, 1) \in DOMAIN predictions
    /\ TipKey(1, 2) \in DOMAIN predictions
    /\ predictions[TipKey(1, 1)] = PredictionRow(Some(1), Some(0))
    /\ predictions[TipKey(1, 2)] = PredictionRow(Some(2), Some(1))

\* the GroupMembership rows of user u
MembershipsOf(u) == {r \in memberships : r.user = u}

\* a view that calls _require_active_membership has been served
ViewServed == request # Idle /\ request.op \in {"tabelle", "spieltag"}

\* the step serves such a view
ServesViewNow == request = Idle /\ request' # Idle /\ request'.op \in {"tabelle", "spieltag"}

\* the session of user u names a group u is a member of
ActiveGroupValid(u) ==
    session[u] # None /\ \E r \in MembershipsOf(u) : r.group = Get(session[u])

\* C28: after any sequence of join_group, create_group, set_active_group and view
\* requests, and of membership removals in between, _require_active_membership returns
\* None exactly when the user has no membership, and otherwise a membership of the
\* requesting user, the session's active_group_id then being the id of its group; an
\* active_group_id that is missing or names a group the user is not a member of is
\* repaired to the user's membership with the smallest id.
C28_ActiveMembership ==
    /\ [](ViewServed =>
            /\ response = RedirectJoinGroup <=> MembershipsOf(request.user) = {}
            /\ response # RedirectJoinGroup =>
                  /\ \E r \in MembershipsOf(request.user) : r.group = response.group
                  /\ session[request.user] = Some(response.group))
    /\ [][(ServesViewNow /\ MembershipsOf(request'.user) # {}) =>
            IF ActiveGroupValid(request'.user)
            THEN /\ response'.group = Get(session[request'.user])
                 /\ session' = session
            ELSE \E r \in MembershipsOf(request'.user) :
                    /\ \A q \in MembershipsOf(request'.user) : r.id <= q.id
                    /\ response'.group = r.group
                    /\ session' = [session EXCEPT ![request'.user] = Some(r.group)]]_vars

\* user 1 created the third group and lost a membership (an id below the largest is
\* missing); of the two groups user 1 is still in, the one joined first has the
\* larger group id, and the view served user 1 with that group
C28_Witness ==
    /\ ViewServed
    /\ request.user = 1
    /\ Cardinality(groups) = MaxGroups
    /\ Cardinality(MembershipsOf(1)) = 2
    /\ \E id \in 1..MaxMembershipId :
          /\ \E r \in memberships : id < r.id
          /\ \A r \in memberships : id # r.id
    /\ \E r \in MembershipsOf(1), q \in MembershipsOf(1) :
          r.id < q.id /\ q.group < r.group /\ response.group = r.group

====
